---- MODULE Spec2Model ----
(***************************************************************************)
(* megamaid: scan -> detect -> plan -> verify -> execute.                  *)
(*                                                                         *)
(* The module models the core of the pipeline as state machines over one   *)
(* set of variables.  Each component has its own specification (SpecExec,  *)
(* SpecHandEdited, SpecRun, SpecVerify, SpecPlan, SpecDetect, SpecWrite,   *)
(* SpecScan, SpecProgress); a specification holds the variables of the     *)
(* others at their idle values.                                            *)
(***************************************************************************)
EXTENDS Integers, Sequences, FiniteSets, TLC

VARIABLES
    fs,          \* the filesystem: path -> node
    fs0,         \* history: the filesystem when the run started
    plan,        \* the CleanupPlan being verified / executed
    config,      \* ExecutionConfig of the engine
    epc,         \* position of ExecutionEngine::execute
    cursor,      \* sequential loop: next position in entries_to_process
    operations,  \* Vec<OperationResult> collected so far
    batchNo,     \* parallel loop: number of the current batch (1-based)
    wstate,      \* parallel loop: position -> "pending" | "running" | "done"
    wres,        \* parallel loop: position -> the worker's OperationResult
    shouldAbort, \* parallel loop: the should_abort flag
    progress,    \* AdvancedProgress counters [total, processed]
    execResult,  \* what execute returned: <<>> or <<ExecutionResult>>
    trace,       \* history: prompts and execute_single calls, in time order
    started,     \* history: positions a parallel worker has begun
    vcfg,        \* VerificationConfig
    vpc,         \* position of VerificationEngine::verify
    vidx,        \* verify: index of the next plan entry
    vresult,     \* verify: the VerificationResult being built
    vprev,       \* history: <<>> or <<the result of the previous call of verify>>
    opts,        \* run_execute: the ExecuteOptions of the command line
    mcfg,        \* run_execute: the MegamaidConfig (executor and verifier parts)
    rpc,         \* position of run_execute
    logger,      \* run_execute: <<>> or <<the TransactionLog held in memory>>
    logfile,     \* the transaction log on disk: <<>> or <<TransactionLog>>
    entries,     \* analyze: the FileEntry list of the scan
    rules,       \* analyze: the rules of the DetectionEngine, in order
    dpc,         \* position of DetectionEngine::analyze
    didx,        \* analyze: index of the next entry
    results,     \* analyze: the DetectionResult list being built
    dprev,       \* the list an earlier call of analyze returned, if any
    detections,  \* generate: the DetectionResult list passed in
    gpc,         \* position of PlanGenerator::generate
    sorted,      \* generate: the detections after the sort
    gidx,        \* generate: index of the next detection
    deleted_paths, \* generate: directories marked for deletion so far
    sources,     \* history: for each plan entry, the detection it was made from
    target,      \* PlanWriter::write: the destination file name
    wrpc,        \* position of PlanWriter::write
    files,       \* the output directory: name -> content
    files0,      \* history: the output directory before the write
    dirty,       \* names whose content is not yet on stable storage
    scfg,        \* ScanConfig / ScannerConfig of the two scanners
    spc,         \* position of FileScanner::scan
    swalk,       \* FileScanner::scan: the pending items of its WalkDir
    sentries,    \* FileScanner::scan: the entries pushed so far
    ppc,         \* position of ParallelScanner::scan
    pwalk,       \* ParallelScanner::scan: the pending items of its WalkDir
    paths,       \* ParallelScanner::scan: the DirEntry list of phase 1
    pending,     \* phase 2: the positions of paths not yet processed
    pout,        \* phase 2: position -> the FileEntry it produced, if any
    errors,      \* ErrorCollector: the errors recorded so far
    processed,   \* AdvancedProgress: the processed counter
    throughput_history, \* AdvancedProgress: the samples behind the mutex
    fetched,     \* increment: worker -> the count it is about to record, or 0
    now          \* the monotonic clock (Instant::now), in whole seconds

engVars == <<config, epc, cursor, operations, batchNo, wstate, wres,
             shouldAbort, progress, execResult, trace, started>>
verVars == <<vcfg, vpc, vidx, vresult, vprev>>
runVars == <<opts, mcfg, rpc, logger, logfile>>
detVars == <<entries, rules, dpc, didx, results, dprev>>
genVars == <<detections, gpc, sorted, gidx, deleted_paths, sources>>
wrVars == <<target, wrpc, files, files0, dirty>>
scanVars == <<scfg, spc, swalk, sentries, ppc, pwalk, paths, pending, pout,
              errors>>
progVars == <<processed, throughput_history, fetched, now>>
vars == <<fs, fs0, plan, engVars, verVars, runVars, detVars, genVars, wrVars,
          scanVars, progVars>>

\* what a step of the execution engine leaves alone
outsideEngine == <<verVars, runVars, detVars, genVars, wrVars,
    scanVars, progVars>>
\* what a step of the verification engine leaves alone
outsideVerifier == <<fs, fs0, plan, engVars, runVars, detVars, genVars, wrVars,
    scanVars, progVars>>
\* what a step of run_execute itself leaves alone
outsideRun == <<detVars, genVars, wrVars,
    scanVars, progVars>>
\* what a step of the detection engine leaves alone
outsideDetector == <<fs, fs0, plan, engVars, verVars, runVars, genVars, wrVars,
    scanVars, progVars>>
\* what a step of the plan generator leaves alone
outsideGenerator == <<fs, fs0, engVars, verVars, runVars, detVars, wrVars,
    scanVars, progVars>>
\* what a step of the plan writer leaves alone
outsideWriter == <<fs, fs0, plan, engVars, verVars, runVars, detVars, genVars,
    scanVars, progVars>>
\* what a step of a scanner leaves alone
outsideScanner == <<fs0, plan, engVars, verVars, runVars, detVars, genVars,
    wrVars, progVars>>
\* what a step on the progress tracker leaves alone
outsideProgress == <<fs, fs0, plan, engVars, verVars, runVars, detVars, genVars,
    wrVars, scanVars>>

----------------------------------------------------------------------------
(* Bounds of the model *)

MaxEntries == 2
MaxBatch == 2
MaxWorkers == 2
MaxDetections == 3

----------------------------------------------------------------------------
(* Paths: a path is the sequence of its components; an absolute path starts
   with the root component "/". *)

IsPrefix(p, q) == Len(p) <= Len(q) /\ SubSeq(q, 1, Len(p)) = p

IsStrictDescendant(q, p) == IsPrefix(p, q) /\ q # p

IsAbsolute(p) == Len(p) > 0 /\ p[1] = "/"

\* PathBuf::join: an absolute argument replaces the receiver
Join(base, p) == IF IsAbsolute(p) THEN p ELSE base \o p

Parent(p) == SubSeq(p, 1, Len(p) - 1)

BasePath == <<"/", "r">>
BackupDir == <<"/", "bk">>

\* the relative paths a plan of the execution model may name:
\* a directory a, a file x inside it, a file b
ExecRel == {<<"a">>, <<"a", "x">>, <<"b">>}

\* a file that lies neither beneath the base path nor in the backup directory
Outside == <<"/", "o">>

ExecUniverse ==
    {BasePath, BackupDir, Outside} \cup {Join(BasePath, r) : r \in ExecRel}
                                   \cup {Join(BackupDir, r) : r \in ExecRel}

----------------------------------------------------------------------------
(* Filesystem: each path of the universe holds a node.  locked stands for a
   node the process may not remove, rename or list (permission denied). *)

Absent == [kind |-> "none", size |-> 0, mtime |-> 0, locked |-> FALSE]
DirNode == [kind |-> "dir", size |-> 0, mtime |-> 0, locked |-> FALSE]
FileNode(sz, mt) == [kind |-> "file", size |-> sz, mtime |-> mt, locked |-> FALSE]

Exists(f, p) == p \in DOMAIN f /\ f[p].kind # "none"
IsDir(f, p) == p \in DOMAIN f /\ f[p].kind = "dir"
IsFile(f, p) == p \in DOMAIN f /\ f[p].kind = "file"

Subtree(f, p) == {q \in DOMAIN f : IsPrefix(p, q) /\ f[q].kind # "none"}

RemoveTree(f, p) == [q \in DOMAIN f |-> IF IsPrefix(p, q) THEN Absent ELSE f[q]]

\* sets of nodes a failing recursive removal may already have unlinked:
\* unlocked, without a locked node beneath, closed under descendants
PartialRemovals(f, p) ==
    {S \in SUBSET (Subtree(f, p) \ {p}) :
        /\ \A q \in S : \A d \in Subtree(f, q) : ~f[d].locked
        /\ \A q \in S : Subtree(f, q) \subseteq S}

Outcome(ok, g) == [ok |-> ok, fs |-> g]

\* std::fs::remove_file
RemoveFile(f, p) ==
    IF Exists(f, p) /\ ~IsDir(f, p) /\ ~f[p].locked
    THEN {Outcome(TRUE, [f EXCEPT ![p] = Absent])}
    ELSE {Outcome(FALSE, f)}

\* std::fs::remove_dir_all: fails on a locked node, possibly after it has
\* already removed other nodes of the tree
RemoveDirAll(f, p) ==
    IF \E q \in Subtree(f, p) : f[q].locked
    THEN {Outcome(FALSE, [q \in DOMAIN f |-> IF q \in S THEN Absent ELSE f[q]]) :
             S \in PartialRemovals(f, p)}
    ELSE {Outcome(TRUE, RemoveTree(f, p))}

\* ExecutionEngine::delete_path
DeletePath(f, p) == IF IsDir(f, p) THEN RemoveDirAll(f, p) ELSE RemoveFile(f, p)

\* std::fs::create_dir_all, on the part of the path the universe holds
CreateDirAll(f, d) ==
    LET chain == {q \in DOMAIN f : IsPrefix(q, d)}
    IN  IF \E q \in chain : f[q].kind = "file"
        THEN Outcome(FALSE, f)
        ELSE Outcome(TRUE, [q \in DOMAIN f |->
                 IF q \in chain /\ f[q].kind = "none" THEN DirNode ELSE f[q]])

\* std::fs::rename of a file or a directory tree (POSIX rules)
Rename(f, src, dst) ==
    IF ~Exists(f, src) \/ f[src].locked \/ dst \notin DOMAIN f
    THEN Outcome(FALSE, f)
    ELSE IF src = dst THEN Outcome(TRUE, f)
    ELSE IF IsPrefix(src, dst) THEN Outcome(FALSE, f)
    ELSE IF IsDir(f, src) /\ (IsFile(f, dst) \/ Subtree(f, dst) \ {dst} # {})
    THEN Outcome(FALSE, f)
    ELSE IF IsFile(f, src) /\ IsDir(f, dst) THEN Outcome(FALSE, f)
    ELSE Outcome(TRUE, [q \in DOMAIN f |->
             IF IsPrefix(dst, q)
             THEN LET from == src \o SubSeq(q, Len(dst) + 1, Len(q))
                  IN  IF from \in DOMAIN f THEN f[from] ELSE Absent
             ELSE IF IsPrefix(src, q) THEN Absent
             ELSE f[q]])

\* ExecutionEngine::move_to_backup
MoveToBackup(f, p, entry) ==
    LET dest == Join(BackupDir, entry.path)
        made == CreateDirAll(f, Parent(dest))
    IN  IF ~made.ok THEN {made} ELSE {Rename(made.fs, p, dest)}

\* ExecutionEngine::move_to_recycle_bin (trash::delete)
MoveToRecycleBin(f, p) ==
    IF Exists(f, p) /\ \A q \in Subtree(f, p) : ~f[q].locked
    THEN {Outcome(TRUE, RemoveTree(f, p))}
    ELSE {Outcome(FALSE, f)}

----------------------------------------------------------------------------
(* Plan and execution values *)

None == <<>>
Some(v) == <<v>>

\* Time is counted in ticks, TicksPerSec to the second, so that a duration
\* has a sub-second part for Duration::as_secs to drop.
TicksPerSec == 2

\* DateTime::to_rfc3339: the text of a timestamp (sub-second digits are kept)
Rfc3339(t) == [valid |-> TRUE, text |-> t]

\* a modified field that is not an RFC 3339 timestamp (a hand-edited plan)
BadTimestamp == [valid |-> FALSE, text |-> 0]

\* DateTime::parse_from_rfc3339
ParseRfc3339(str) == IF str.valid THEN Some(str.text) ELSE None

Actions == {"Delete", "Keep", "Review"}
Modes == {"DryRun", "Interactive", "Batch"}

OperationResult(p, action, status, freed, err) ==
    [path |-> p, action |-> action, status |-> status,
     size_freed |-> freed, error |-> err]

\* the slot of a worker that has not returned yet
NoOp == [path |-> <<>>, action |-> "Skip", status |-> "Pending",
         size_freed |-> None, error |-> None]

\* mutant: everything not marked Keep is processed
IsToProcessNotKeep(e) == e.action # "Keep"

\* the filter of execute_sequential and execute_parallel
IsToProcess(e) == e.action = "Delete"

\* plan indices of the entries to process, in plan order
RECURSIVE DeleteIdxUpTo(_, _)
DeleteIdxUpTo(p, i) ==
    IF i = 0 THEN <<>>
    ELSE IF IsToProcess(p.entries[i])
         THEN Append(DeleteIdxUpTo(p, i - 1), i)
         ELSE DeleteIdxUpTo(p, i - 1)

DeleteIdx(p) == DeleteIdxUpTo(p, Len(p.entries))

EntriesToProcess(p) == [k \in 1..Len(DeleteIdx(p)) |-> p.entries[DeleteIdx(p)[k]]]

FullPath(p, e) == Join(p.base_path, e.path)

\* mutant: the backup directory is looked at before the recycle bin
ChooseActionBackupFirst(cfg) ==
    IF cfg.backup_dir # None THEN "MoveToBackup"
    ELSE IF cfg.use_recycle_bin THEN "MoveToRecycleBin"
    ELSE "Delete"

\* execute_single: the action type, by priority
ChooseAction(cfg) ==
    IF cfg.use_recycle_bin THEN "MoveToRecycleBin"
    ELSE IF cfg.backup_dir # None THEN "MoveToBackup"
    ELSE "Delete"

\* execute_single past the dry-run test: pick the action, run it, report
RealExecute(f, cfg, p, entry) ==
    LET action == ChooseAction(cfg)
        outs == CASE action = "Delete" -> DeletePath(f, p)
                 [] action = "MoveToBackup" -> MoveToBackup(f, p, entry)
                 [] action = "MoveToRecycleBin" -> MoveToRecycleBin(f, p)
    IN  {[op |-> IF o.ok
                 THEN OperationResult(p, action, "Success", Some(entry.size), None)
                 ELSE OperationResult(p, action, "Failed", None, Some("io")),
          fs |-> o.fs] : o \in outs}

\* mutant: the dry-run test is missing
ExecuteSingleNoDryRun(f, cfg, p, entry) == RealExecute(f, cfg, p, entry)

\* ExecutionEngine::execute_single: the possible (operation, filesystem) pairs
ExecuteSingle(f, cfg, p, entry) ==
    IF cfg.mode = "DryRun"
    THEN {[op |-> OperationResult(p, "Delete", "DryRun", Some(entry.size), None),
           fs |-> f]}
    ELSE RealExecute(f, cfg, p, entry)

CountStatus(ops, S) == Cardinality({i \in 1..Len(ops) : ops[i].status \in S})

RECURSIVE SumFreed(_)
SumFreed(ops) ==
    IF ops = <<>> THEN 0
    ELSE (IF Head(ops).size_freed = None THEN 0 ELSE Head(ops).size_freed[1])
         + SumFreed(Tail(ops))

\* mutant: a dry-run operation is not counted as successful
ComputeSummarySuccessOnly(ops) ==
    [total_operations |-> Len(ops),
     successful |-> CountStatus(ops, {"Success"}),
     failed |-> CountStatus(ops, {"Failed"}),
     skipped |-> CountStatus(ops, {"Skipped"}),
     space_freed |-> SumFreed(ops)]

\* ExecutionEngine::compute_summary (the wall-clock duration is left out)
ComputeSummary(ops) ==
    [total_operations |-> Len(ops),
     successful |-> CountStatus(ops, {"Success", "DryRun"}),
     failed |-> CountStatus(ops, {"Failed"}),
     skipped |-> CountStatus(ops, {"Skipped"}),
     space_freed |-> SumFreed(ops)]

\* mutant: a line that is not understood counts as consent
PromptUserUnknownIsYes(input) ==
    CASE input \in {"n", "no"} -> "No"
      [] input \in {"a", "abort", "q", "quit"} -> "Abort"
      [] OTHER -> "Yes"

\* ExecutionEngine::prompt_user: the trimmed, lower-cased line decides
PromptUser(input) ==
    CASE input \in {"y", "yes"} -> "Yes"
      [] input \in {"n", "no"} -> "No"
      [] input \in {"a", "abort", "q", "quit"} -> "Abort"
      [] OTHER -> "No"

\* lines the user may type, after trim and to_lowercase
Inputs == {"y", "yes", "n", "a", "q", "maybe", ""}

\* what one prompt reads: a line, or the failure of the terminal (flush or
\* read_line returning Err, passed on by the ? operator)
ReadFailed == "<read failed>"
PromptReads == Inputs \cup {ReadFailed}

\* outcome of one prompt
PromptResult(line) == IF line = ReadFailed THEN "IoError" ELSE PromptUser(line)

----------------------------------------------------------------------------
(* ExecutionEngine::execute as a state machine.
   epc: NotStarted -> SeqLoop | ParLoop/ParRun (Running)
        -> Completed | Aborted | IoError | ConfigError | Panicked *)

NumToProcess == Len(DeleteIdx(plan))

Min(a, b) == IF a <= b THEN a ELSE b

\* slice::chunks(batch_size): the positions of batch b
BatchPositions(b) ==
    ((b - 1) * config.batch_size + 1)..Min(b * config.batch_size, NumToProcess)

NumBatches ==
    (NumToProcess + config.batch_size - 1) \div config.batch_size

BatchOf(k) == ((k - 1) \div config.batch_size) + 1

Event(ev, k) == [ev |-> ev, pos |-> k]

\* history: the prompt for position k read this line
PromptEvent(k, line) == [ev |-> "prompt", pos |-> k, line |-> line]

\* mutant: the configuration is not validated
ConfigRejectedNever(cfg) == FALSE

\* the validation at the head of execute
ConfigRejected(cfg) == cfg.parallel /\ cfg.mode = "Interactive"

\* execute, up to the head of the loop of the strategy it dispatches to
Execute ==
    /\ UNCHANGED outsideEngine
    /\ epc = "NotStarted"
    /\ IF ConfigRejected(config)
       THEN /\ epc' = "ConfigError"
            /\ UNCHANGED <<progress, cursor, batchNo>>
       ELSE /\ progress' = [progress EXCEPT !.total = NumToProcess]
            /\ IF config.parallel
               THEN /\ epc' = IF config.batch_size = 0 THEN "Panicked" ELSE "ParLoop"
                    /\ batchNo' = 1
                    /\ UNCHANGED cursor
               ELSE /\ epc' = "SeqLoop"
                    /\ cursor' = 1
                    /\ UNCHANGED batchNo
    /\ UNCHANGED <<fs, fs0, plan, config, operations, wstate, wres,
                   shouldAbort, execResult, trace, started>>

Bump(pr) == [pr EXCEPT !.processed = @ + 1]

\* mutant: a failure does not end the loop
BreaksLoopNever(cfg, op) == FALSE

\* the fail-fast check of execute_sequential
BreaksLoop(cfg, op) == cfg.fail_fast /\ op.status = "Failed"

\* one iteration of the loop of execute_sequential
SeqStep ==
    /\ UNCHANGED outsideEngine
    /\ epc = "SeqLoop"
    /\ cursor <= NumToProcess
    /\ LET entry == EntriesToProcess(plan)[cursor]
           full_path == FullPath(plan, entry)
       IN  \E line \in IF config.mode = "Interactive" THEN PromptReads ELSE {"y"} :
             LET choice == IF config.mode = "Interactive"
                           THEN PromptResult(line) ELSE "Yes"
                 asked == IF config.mode = "Interactive"
                          THEN Append(trace, PromptEvent(cursor, line)) ELSE trace
             IN  CASE choice = "IoError" ->
                        /\ epc' = "IoError"
                        /\ trace' = asked
                        /\ UNCHANGED <<fs, operations, progress, cursor>>
                   [] choice = "Abort" ->
                        /\ epc' = "Aborted"
                        /\ trace' = asked
                        /\ UNCHANGED <<fs, operations, progress, cursor>>
                   [] choice = "No" ->
                        /\ operations' = Append(operations,
                               OperationResult(full_path, "Skip", "Skipped", None, None))
                        /\ progress' = Bump(progress)
                        /\ cursor' = cursor + 1
                        /\ trace' = asked
                        /\ UNCHANGED <<fs, epc>>
                   [] choice = "Yes" ->
                        \E out \in ExecuteSingle(fs, config, full_path, entry) :
                            /\ fs' = out.fs
                            /\ progress' = Bump(progress)
                            /\ operations' = Append(operations, out.op)
                            /\ trace' = Append(asked, Event("exec", cursor))
                            /\ IF BreaksLoop(config, out.op)
                               THEN epc' = "SeqBroken" /\ UNCHANGED cursor
                               ELSE cursor' = cursor + 1 /\ UNCHANGED epc
    /\ UNCHANGED <<fs0, plan, config, batchNo, wstate, wres, shouldAbort,
                   execResult, started>>

\* the loop of execute_sequential is left: summary and return
SeqFinish ==
    /\ UNCHANGED outsideEngine
    /\ \/ epc = "SeqLoop" /\ cursor > NumToProcess
       \/ epc = "SeqBroken"
    /\ epc' = "Completed"
    /\ execResult' = Some([operations |-> operations,
                           summary |-> ComputeSummary(operations)])
    /\ UNCHANGED <<fs, fs0, plan, config, cursor, operations, batchNo, wstate,
                   wres, shouldAbort, progress, trace, started>>

\* head of the batch loop of execute_parallel: the abort check, then par_iter
ParBatchStart ==
    /\ UNCHANGED outsideEngine
    /\ epc = "ParLoop"
    /\ batchNo <= NumBatches
    /\ ~shouldAbort
    /\ epc' = "ParRun"
    /\ wstate' = [k \in BatchPositions(batchNo) |-> "pending"]
    /\ wres' = [k \in BatchPositions(batchNo) |-> NoOp]
    /\ UNCHANGED <<fs, fs0, plan, config, cursor, operations, batchNo,
                   shouldAbort, progress, execResult, trace, started>>

Running == {k \in DOMAIN wstate : wstate[k] = "running"}

\* a pool thread takes an entry of the batch (the pool has MaxWorkers threads;
\* a smaller pool only removes interleavings)
WorkerStart(k) ==
    /\ UNCHANGED outsideEngine
    /\ epc = "ParRun"
    /\ wstate[k] = "pending"
    /\ Cardinality(Running) < MaxWorkers
    /\ wstate' = [wstate EXCEPT ![k] = "running"]
    /\ started' = started \cup {k}
    /\ UNCHANGED <<fs, fs0, plan, config, epc, cursor, operations, batchNo,
                   wres, shouldAbort, progress, execResult, trace>>

\* the closure of par_iter().map(): execute_single, progress.increment
WorkerFinish(k) ==
    /\ UNCHANGED outsideEngine
    /\ epc = "ParRun"
    /\ wstate[k] = "running"
    /\ LET entry == EntriesToProcess(plan)[k]
       IN  \E out \in ExecuteSingle(fs, config, FullPath(plan, entry), entry) :
             /\ fs' = out.fs
             /\ wres' = [wres EXCEPT ![k] = out.op]
    /\ progress' = Bump(progress)
    /\ wstate' = [wstate EXCEPT ![k] = "done"]
    /\ trace' = Append(trace, Event("exec", k))
    /\ UNCHANGED <<fs0, plan, config, epc, cursor, operations, batchNo,
                   shouldAbort, execResult, started>>

\* mutant: the batch is collected without waiting for its workers
BatchDoneNoWait == TRUE

\* collect() returns once every item of the batch has been mapped
BatchDone == \A k \in DOMAIN wstate : wstate[k] = "done"

\* the batch's results in entry order (collect of an indexed parallel iterator)
BatchResults ==
    LET lo == (batchNo - 1) * config.batch_size
    IN  [i \in 1..Cardinality(DOMAIN wres) |-> wres[lo + i]]

\* mutant: the test is made on an empty result list (before the extend)
FailFastHitBeforeExtend(ops) ==
    config.fail_fast /\ \E i \in 1..(Len(ops) - Cardinality(DOMAIN wres)) :
                           ops[i].status = "Failed"

\* the fail-fast test after a batch
FailFastHit(ops) ==
    config.fail_fast /\ \E i \in 1..Len(ops) : ops[i].status = "Failed"

\* results are extended with the batch, should_abort is set, next batch
ParCollect ==
    /\ UNCHANGED outsideEngine
    /\ epc = "ParRun"
    /\ BatchDone
    /\ operations' = operations \o BatchResults
    /\ shouldAbort' = (shouldAbort \/ FailFastHit(operations'))
    /\ batchNo' = batchNo + 1
    /\ epc' = "ParLoop"
    /\ wstate' = << >>
    /\ wres' = << >>
    /\ UNCHANGED <<fs, fs0, plan, config, cursor, progress, execResult,
                   trace, started>>

\* the batch loop is left (no batch remains, or the abort flag is set)
ParFinish ==
    /\ UNCHANGED outsideEngine
    /\ epc = "ParLoop"
    /\ batchNo > NumBatches \/ shouldAbort
    /\ epc' = "Completed"
    /\ execResult' = Some([operations |-> operations,
                           summary |-> ComputeSummary(operations)])
    /\ UNCHANGED <<fs, fs0, plan, config, cursor, operations, batchNo, wstate,
                   wres, shouldAbort, progress, trace, started>>

EngineNext ==
    \/ Execute
    \/ SeqStep
    \/ SeqFinish
    \/ ParBatchStart
    \/ \E k \in DOMAIN wstate : WorkerStart(k)
    \/ \E k \in DOMAIN wstate : WorkerFinish(k)
    \/ ParCollect
    \/ ParFinish

----------------------------------------------------------------------------
(* VerificationEngine::verify as a loop over the plan entries.
   vpc: Idle -> Loop -> Ok | ErrWalkDir | ErrTimestamp *)

\* mutant: only the drifted list is looked at
HasDriftOnlyDrifted(r) == r.drifted # << >>

\* VerificationResult::has_drift
HasDrift(r) == r.drifted # << >> \/ r.missing # << >>

\* mutant: every result passes the gate
IsSafeAlways(r) == TRUE

\* VerificationResult::is_safe_to_execute
IsSafeToExecute(r) == ~HasDrift(r)

EmptyResult(p) ==
    [total_entries |-> Len(p.entries), verified |-> 0, drifted |-> << >>,
     missing |-> << >>, permission_errors |-> << >>]

\* VerificationEngine::calculate_dir_size: the sum of the file sizes beneath the
\* directory, or the WalkDir error of a directory that cannot be listed
RECURSIVE SumSizes(_, _)
SumSizes(f, S) ==
    IF S = {} THEN 0
    ELSE LET q == CHOOSE q \in S : TRUE
         IN  (IF f[q].kind = "file" THEN f[q].size ELSE 0) + SumSizes(f, S \ {q})

CalculateDirSize(f, p) ==
    IF \E q \in Subtree(f, p) : f[q].kind = "dir" /\ f[q].locked
    THEN None
    ELSE Some(SumSizes(f, Subtree(f, p)))

\* the tolerance of the modification-time comparison, in whole seconds
MtimeToleranceSecs == 2

Abs(x) == IF x < 0 THEN -x ELSE x

\* mutant: only a file modified after the recorded time has a distance
DiffSecsForwardOnly(t1, t2) ==
    IF t1 > t2 THEN (t1 - t2) \div TicksPerSec ELSE 0

\* Duration::as_secs of the distance between two instants
DiffSecs(t1, t2) == Abs(t1 - t2) \div TicksPerSec

DriftDetection(p, kind, expected, actual) ==
    [path |-> p, drift_type |-> kind, expected |-> expected, actual |-> actual]

\* mutant: Keep entries are inspected like the others
SkippedNever(entry) == FALSE

\* the entries verify does not look at
Skipped(entry) == entry.action = "Keep"

CountVerified(r) == [r EXCEPT !.verified = @ + 1]

\* mutant: a missing path is reported as drift
PushMissingAsDrift(r, p) ==
    [r EXCEPT !.drifted = Append(@, DriftDetection(p, "SizeMismatch", 0, 0))]

PushMissing(r, p) == [r EXCEPT !.missing = Append(@, p)]

\* mutant: an entry with unreadable metadata is counted as verified as well
PushPermissionErrorAndVerified(r, p) ==
    [r EXCEPT !.permission_errors = Append(@, p), !.verified = @ + 1]

PushPermissionError(r, p) == [r EXCEPT !.permission_errors = Append(@, p)]

\* mutant: only a grown entry counts as changed
SizeMismatchOnlyGrown(current_size, entry) == current_size > entry.size

\* the comparison of the size check
SizeMismatch(current_size, entry) == current_size # entry.size

\* mutant: the result of an earlier call is not reset
VerifyStartKeepsResult ==
    /\ vpc = "Idle"
    /\ vpc' = "Loop"
    /\ vidx' = 1
    /\ vresult' = [vresult EXCEPT !.total_entries = Len(plan.entries)]
    /\ UNCHANGED <<vcfg, vprev, outsideVerifier>>

VerifyStart ==
    /\ vpc = "Idle"
    /\ vpc' = "Loop"
    /\ vidx' = 1
    /\ vresult' = EmptyResult(plan)
    /\ UNCHANGED <<vcfg, vprev, outsideVerifier>>

\* one iteration of the loop of verify; metaErr: fs::metadata fails although
\* exists() has just succeeded (the entry changed under the verifier)
VerifyStep ==
    /\ vpc = "Loop"
    /\ vidx <= Len(plan.entries)
    /\ UNCHANGED <<vcfg, vprev, outsideVerifier>>
    /\ LET entry == plan.entries[vidx]
           full_path == FullPath(plan, entry)
           stop(r) == /\ vresult' = r
                      /\ IF vcfg.fail_fast
                         THEN vpc' = "Ok" /\ UNCHANGED vidx
                         ELSE vidx' = vidx + 1 /\ UNCHANGED vpc
           next(r) == vresult' = r /\ vidx' = vidx + 1 /\ UNCHANGED vpc
           fail(e) == vpc' = e /\ UNCHANGED <<vidx, vresult>>
       IN  IF Skipped(entry)
           THEN next(CountVerified(vresult))
           ELSE IF ~Exists(fs, full_path)
           THEN stop(PushMissing(vresult, full_path))
           ELSE \E metaErr \in BOOLEAN :
             IF metaErr
             THEN next(PushPermissionError(vresult, full_path))
             ELSE
               LET sized == IF IsDir(fs, full_path)
                            THEN CalculateDirSize(fs, full_path)
                            ELSE Some(fs[full_path].size)
                   stamp == ParseRfc3339(entry.modified)
               IN  IF vcfg.check_size /\ sized = None
                   THEN fail("ErrWalkDir")
                   ELSE IF vcfg.check_size /\ SizeMismatch(sized[1], entry)
                   THEN stop([vresult EXCEPT !.drifted = Append(@,
                              DriftDetection(full_path, "SizeMismatch",
                                             entry.size, sized[1]))])
                   ELSE IF vcfg.check_mtime /\ stamp = None
                   THEN fail("ErrTimestamp")
                   ELSE IF /\ vcfg.check_mtime
                           /\ DiffSecs(fs[full_path].mtime, stamp[1]) > MtimeToleranceSecs
                   THEN stop([vresult EXCEPT !.drifted = Append(@,
                              DriftDetection(full_path, "ModificationTimeMismatch",
                                             entry.modified,
                                             Rfc3339(fs[full_path].mtime)))])
                   ELSE next(CountVerified(vresult))

\* the loop of verify is left: Ok(result)
VerifyReturn ==
    /\ vpc = "Loop"
    /\ vidx > Len(plan.entries)
    /\ vpc' = "Ok"
    /\ UNCHANGED <<vidx, vresult, vcfg, vprev, outsideVerifier>>

VerifierNext ==
    \/ VerifyStart
    \/ VerifyStep
    \/ VerifyReturn

\* the caller keeps the result and calls verify once more, on the same
\* engine, plan and filesystem
VerifyAgain ==
    /\ vpc = "Ok"
    /\ vprev = None
    /\ vprev' = Some(vresult)
    /\ vpc' = "Idle"
    /\ UNCHANGED <<vidx, vresult, vcfg, outsideVerifier>>

VerifyTwiceNext ==
    \/ VerifierNext
    \/ VerifyAgain

----------------------------------------------------------------------------
(* run_execute: read the plan, verify, configure, execute, log.
   rpc: Start -> Verifying -> Gate passed (Configure) -> Executing
        -> Ok | ErrPlanFile | ErrVerify | ErrDrift | ErrExecute | ErrLogWrite
           | ErrFailed | Panicked *)

\* the condition of the pre-execution verification
NeedsVerify(o) == ~o.skip_verify /\ ~o.dry_run

\* Option::or
OrElse(a, b) == IF a # None THEN a ELSE b

\* the ExecutionConfig built from the command line and the configuration
ExecConfigOf(o, c) ==
    [mode |-> IF o.dry_run THEN "DryRun"
              ELSE IF o.interactive THEN "Interactive" ELSE "Batch",
     backup_dir |-> OrElse(o.backup_dir, c.executor.backup_dir),
     fail_fast |-> o.fail_fast \/ c.executor.fail_fast,
     use_recycle_bin |-> o.recycle_bin \/ c.executor.use_recycle_bin,
     parallel |-> o.parallel \/ c.executor.parallel,
     batch_size |-> o.batch_size]

TransactionOptionsOf(o) ==
    [dry_run |-> o.dry_run, backup_dir |-> o.backup_dir,
     use_recycle_bin |-> o.recycle_bin, fail_fast |-> o.fail_fast]

\* TransactionLogger::new
NewTransactionLog(options) ==
    [status |-> "in_progress",
     mode |-> IF options.dry_run THEN "dry_run" ELSE "batch",
     options |-> options,
     operations |-> << >>,
     summary |-> None,
     completed |-> FALSE]

\* the LoggedOperation built from an OperationResult: the path as text, the
\* action and the status by their Debug names, the timestamp left out
LoggedOperation(op) ==
    [path |-> op.path, action |-> op.action, status |-> op.status,
     size_freed |-> op.size_freed, error |-> op.error]

\* TransactionLogger::log_operation: a push onto the log held in memory
LogOperation(log, op) ==
    [log EXCEPT !.operations = Append(@, LoggedOperation(op))]

\* mutant: a run with failures is still reported as completed
FinalStatusAlwaysCompleted(result) == "completed"

\* the status run_execute hands to finalize
FinalStatus(result) ==
    IF result.summary.failed > 0 THEN "failed" ELSE "completed"

\* TransactionLogger::finalize, up to the write
Finalize(log, result, status) ==
    [log EXCEPT !.completed = TRUE, !.status = status,
                !.summary = Some(result.summary)]

\* the plan file is read and parsed; the verifier is created when it is needed
RunReadPlan ==
    /\ UNCHANGED outsideRun
    /\ rpc = "Start"
    /\ \E readable \in BOOLEAN :
         IF ~readable
         THEN rpc' = "ErrPlanFile" /\ UNCHANGED verVars
         ELSE IF NeedsVerify(opts)
         THEN /\ rpc' = "Verifying"
              /\ vcfg' = mcfg.verifier
              /\ vpc' = "Idle"
              /\ UNCHANGED <<vidx, vresult, vprev>>
         ELSE rpc' = "Configure" /\ UNCHANGED verVars
    /\ UNCHANGED <<fs, fs0, plan, engVars, opts, mcfg, logger, logfile>>

\* verify has returned: the ? operator, then the is_safe_to_execute gate
RunGate ==
    /\ UNCHANGED outsideRun
    /\ rpc = "Verifying"
    /\ vpc \in {"Ok", "ErrWalkDir", "ErrTimestamp"}
    /\ rpc' = IF vpc # "Ok" THEN "ErrVerify"
              ELSE IF ~IsSafeToExecute(vresult) THEN "ErrDrift"
              ELSE "Configure"
    /\ UNCHANGED <<fs, fs0, plan, engVars, verVars, opts, mcfg, logger, logfile>>

\* the configuration is merged, the deletions are counted, the logger and the
\* engine are created
RunConfigure ==
    /\ UNCHANGED outsideRun
    /\ rpc = "Configure"
    /\ IF Len(DeleteIdx(plan)) = 0
       THEN /\ rpc' = "Ok"
            /\ UNCHANGED <<config, epc, logger>>
       ELSE /\ logger' = Some(NewTransactionLog(TransactionOptionsOf(opts)))
            /\ config' = ExecConfigOf(opts, mcfg)
            /\ epc' = "NotStarted"
            /\ rpc' = "Executing"
    /\ UNCHANGED <<fs, fs0, plan, cursor, operations, batchNo, wstate, wres,
                   shouldAbort, progress, execResult, trace, started,
                   verVars, opts, mcfg, logfile>>

\* execute returned an error (the ? operator) or panicked: run_execute is left
\* before anything is logged
RunExecuteFailed ==
    /\ UNCHANGED outsideRun
    /\ rpc = "Executing"
    /\ epc \in {"ConfigError", "Aborted", "IoError", "Panicked"}
    /\ rpc' = IF epc = "Panicked" THEN "Panicked" ELSE "ErrExecute"
    /\ UNCHANGED <<fs, fs0, plan, engVars, verVars, opts, mcfg, logger, logfile>>

\* execute returned a result: one turn of the loop that logs its operations,
\* in the order of the result; the position of the loop is the length of the
\* log, and nothing is written
RunLogOperation ==
    /\ UNCHANGED outsideRun
    /\ rpc = "Executing"
    /\ epc = "Completed"
    /\ LET result == execResult[1]
           k == Len(logger[1].operations) + 1
       IN  /\ k <= Len(result.operations)
           /\ logger' = Some(LogOperation(logger[1], result.operations[k]))
    /\ UNCHANGED <<fs, fs0, plan, engVars, verVars, opts, mcfg, rpc, logfile>>

\* after the loop the log is finalized and written (the one write of the
\* run), and failures make the run fail
RunFinalize ==
    /\ UNCHANGED outsideRun
    /\ rpc = "Executing"
    /\ epc = "Completed"
    /\ LET result == execResult[1]
           log == Finalize(logger[1], result, FinalStatus(result))
       IN  /\ Len(logger[1].operations) = Len(result.operations)
           /\ logger' = Some(log)
           /\ \E written \in BOOLEAN :
                IF written
                THEN /\ logfile' = Some(log)
                     /\ rpc' = IF result.summary.failed > 0 THEN "ErrFailed" ELSE "Ok"
                ELSE /\ rpc' = "ErrLogWrite"
                     /\ UNCHANGED logfile
    /\ UNCHANGED <<fs, fs0, plan, engVars, verVars, opts, mcfg>>

\* verify runs between RunReadPlan and RunGate (vpc leaves "NoVerifier" only
\* there), execute between RunConfigure and the two exits (epc likewise)
RunNext ==
    \/ RunReadPlan
    \/ VerifierNext
    \/ RunGate
    \/ RunConfigure
    \/ EngineNext
    \/ RunExecuteFailed
    \/ RunLogOperation
    \/ RunFinalize

----------------------------------------------------------------------------
(* DetectionEngine::analyze as a loop over the scanned entries.
   dpc: Idle -> Loop -> Done *)

FileEntry(p, sz, mt, type) ==
    [path |-> p, size |-> sz, modified |-> mt, entry_type |-> type]

DetectionResult(entry, rule) ==
    [entry |-> entry, rule_name |-> rule.name, reason |-> rule.reason]

\* Path::file_name: the last component, none for the root and for "."
FileName(p) ==
    IF p = << >> \/ p[Len(p)] \in {"/", "."} THEN None ELSE Some(p[Len(p)])

\* Path::extension, on the file names of the model
Extension(p) ==
    LET n == FileName(p)
    IN  IF n = None THEN None
        ELSE CASE n[1] \in {"main.rs"} -> Some("rs")
               [] n[1] \in {"NOTES.PY"} -> Some("PY")
               [] n[1] \in {"big.bin", "o.bin"} -> Some("bin")
               [] n[1] \in {"Cargo.toml", "pyproject.toml"} -> Some("toml")
               [] n[1] \in {"package.json"} -> Some("json")
               [] OTHER -> None

\* str::to_ascii_lowercase, on the names and extensions of the model
ToAsciiLowercase(n) ==
    CASE n = "Build" -> "build"
      [] n = "PY" -> "py"
      [] OTHER -> n

SourceExts ==
    {"rs", "ts", "tsx", "js", "jsx", "svelte", "vue", "py", "go", "java", "kt",
     "c", "cc", "cpp", "h", "hpp", "cs", "rb", "php"}

SourceDirs ==
    {"src", "app", "apps", "lib", "libs", "packages", ".git", ".hg", ".svn",
     ".idea", ".vscode", "config", "configs", "docs"}

JunkNames ==
    {"node_modules", "target", "dist", "build", ".next", "__pycache__",
     ".pytest_cache", ".cache", "bin", "obj"}

RepoRootCandidates == {".git", ".hg", ".svn", "package.json", "Cargo.toml"}

Manifests == {"package.json", "Cargo.toml", "pyproject.toml"}

\* the patterns of BuildArtifactRule::default
DefaultPatterns ==
    {"target", "node_modules", "build", ".next", "dist", "__pycache__",
     ".pytest_cache", "bin", "obj"}

IsProtectedSource(f, entry) ==
    \/ /\ IsFile(f, entry.path)
       /\ Extension(entry.path) # None
       /\ ToAsciiLowercase(Extension(entry.path)[1]) \in SourceExts
    \/ /\ IsDir(f, entry.path)
       /\ FileName(entry.path) # None
       /\ ToAsciiLowercase(FileName(entry.path)[1]) \in SourceDirs

IsKnownJunkDir(p) ==
    /\ FileName(p) # None
    /\ ToAsciiLowercase(FileName(p)[1]) \in JunkNames

IsRepoRoot(f, entry) ==
    IF entry.entry_type # "Directory" THEN FALSE
    ELSE IF IsKnownJunkDir(entry.path) THEN FALSE
    ELSE IF entry.path = <<".">> THEN TRUE
    ELSE \E c \in RepoRootCandidates : Exists(f, Join(entry.path, <<c>>))

IsProtectedManifest(f, entry) ==
    IF entry.entry_type # "Directory" THEN FALSE
    ELSE IF IsKnownJunkDir(entry.path) THEN FALSE
    ELSE \E m \in Manifests : Exists(f, Join(entry.path, <<m>>))

\* the threshold of the size rule of DetectionEngine::new
DefaultThresholdBytes == 100 * 1048576

SizeThresholdRule(threshold) ==
    [name |-> "large_file", threshold_bytes |-> threshold, patterns |-> {},
     reason |-> <<"File exceeds size threshold of", threshold \div 1048576, "MB">>]

BuildArtifactRule ==
    [name |-> "build_artifact", threshold_bytes |-> 0, patterns |-> DefaultPatterns,
     reason |-> <<"Common build artifact directory">>]

\* DetectionRule::should_flag of the two built-in rules
ShouldFlag(rule, entry) ==
    IF rule.name = "large_file"
    THEN entry.size >= rule.threshold_bytes
    ELSE /\ entry.entry_type = "Directory"
         /\ LET n == FileName(entry.path)
                dir_name == IF n = None THEN "" ELSE n[1]
            IN  dir_name \in rule.patterns

\* DetectionEngine::new: the default rules
DetectionEngineNew ==
    <<SizeThresholdRule(DefaultThresholdBytes), BuildArtifactRule>>

\* the engine run_scan builds when the configuration enables both rules and
\* the threshold is the default of the command line
RunScanEngine ==
    <<BuildArtifactRule, SizeThresholdRule(DefaultThresholdBytes)>>

\* mutant: the loop over the rules does not stop at the first rule that flags
RECURSIVE LastMatch(_, _, _, _)
LastMatch(rs, i, f, entry) ==
    IF i > Len(rs) THEN None
    ELSE LET later == LastMatch(rs, i + 1, f, entry)
         IN  IF later # None THEN later
             ELSE IF ShouldFlag(rs[i], entry)
                       /\ ~(rs[i].name = "build_artifact" /\ IsRepoRoot(f, entry))
                  THEN Some(DetectionResult(entry, rs[i]))
                  ELSE None

\* the loop over the rules, from rule i on: the first rule that flags the
\* entry decides, unless it is build_artifact on a repository root
RECURSIVE FirstMatch(_, _, _, _)
FirstMatch(rs, i, f, entry) ==
    IF i > Len(rs) THEN None
    ELSE IF ShouldFlag(rs[i], entry)
         THEN IF rs[i].name = "build_artifact" /\ IsRepoRoot(f, entry)
              THEN FirstMatch(rs, i + 1, f, entry)
              ELSE Some(DetectionResult(entry, rs[i]))
         ELSE FirstMatch(rs, i + 1, f, entry)

AnalyzeStart ==
    /\ UNCHANGED outsideDetector
    /\ dpc = "Idle"
    /\ dpc' = "Loop"
    /\ didx' = 1
    /\ results' = << >>
    /\ UNCHANGED <<entries, rules, dprev>>

\* one iteration of the loop over the entries
AnalyzeStep ==
    /\ UNCHANGED outsideDetector
    /\ dpc = "Loop"
    /\ didx <= Len(entries)
    /\ LET entry == entries[didx]
           hit == FirstMatch(rules, 1, fs, entry)
       IN  IF \/ IsProtectedSource(fs, entry)
              \/ IsRepoRoot(fs, entry)
              \/ IsProtectedManifest(fs, entry)
           THEN UNCHANGED results
           ELSE results' = IF hit = None THEN results ELSE Append(results, hit[1])
    /\ didx' = didx + 1
    /\ UNCHANGED <<entries, rules, dpc, dprev>>

AnalyzeReturn ==
    /\ UNCHANGED outsideDetector
    /\ dpc = "Loop"
    /\ didx > Len(entries)
    /\ dpc' = "Done"
    /\ UNCHANGED <<entries, rules, didx, results, dprev>>

DetectorNext ==
    \/ AnalyzeStart
    \/ AnalyzeStep
    \/ AnalyzeReturn

\* the caller keeps the list and calls analyze once more, with the same
\* entries, rules and context
AnalyzeAgain ==
    /\ UNCHANGED outsideDetector
    /\ dpc = "Done"
    /\ dprev = None
    /\ dprev' = Some(results)
    /\ dpc' = "Idle"
    /\ UNCHANGED <<entries, rules, didx, results>>

\* the environment: between the two calls the source file main.rs is removed
\* from the tree
TreeChanges ==
    /\ dpc = "Idle"
    /\ dprev # None
    /\ fs = fs0
    /\ LET p == <<"/", "r", "main.rs">>
       IN  /\ IsFile(fs, p)
           /\ fs' = [fs EXCEPT ![p] = Absent]
    /\ UNCHANGED <<fs0, plan, detVars, engVars, verVars, runVars, genVars, wrVars,
                   scanVars, progVars>>

DetectTwiceNext ==
    \/ DetectorNext
    \/ AnalyzeAgain
    \/ TreeChanges

\* the detection engine is not part of this specification
DetectorAbsent ==
    /\ entries = << >>
    /\ rules = << >>
    /\ dpc = "NoDetector"
    /\ didx = 0
    /\ results = << >>
    /\ dprev = None

----------------------------------------------------------------------------
(* PlanGenerator::generate as a loop over the sorted detections.
   gpc: Idle -> Loop -> Done *)

RECURSIVE SumLen(_)
SumLen(p) == IF p = << >> THEN 0 ELSE Len(Head(p)) + SumLen(Tail(p))

\* path.as_os_str().len(): the names, and a separator in front of every
\* component but the first (the root component is its own separator)
PathStrLen(p) ==
    IF p = << >> THEN 0
    ELSE IF p[1] = "/" THEN SumLen(Tail(p)) + Len(p) - 1 + (IF Len(p) = 1 THEN 1 ELSE 0)
    ELSE SumLen(p) + Len(p) - 1

\* stable insertion of d behind every element whose key is not larger
RECURSIVE InsertByLen(_, _)
InsertByLen(ds, d) ==
    IF ds = << >> THEN <<d>>
    ELSE IF PathStrLen(ds[Len(ds)].entry.path) <= PathStrLen(d.entry.path)
         THEN Append(ds, d)
         ELSE Append(InsertByLen(SubSeq(ds, 1, Len(ds) - 1), d), ds[Len(ds)])

RECURSIVE SortUpTo(_, _)
SortUpTo(ds, n) ==
    IF n = 0 THEN << >> ELSE InsertByLen(SortUpTo(ds, n - 1), ds[n])

\* mutant: the detections are processed in the order they came in
SortNotDone(ds) == ds

\* detections.sort_by (a stable sort) on the length of the path
SortByPathLen(ds) == SortUpTo(ds, Len(ds))

\* mutant: a rule the generator does not know defaults to Delete
DefaultActionUnknownIsDelete(rule_name) ==
    CASE rule_name = "build_artifact" -> "Delete"
      [] rule_name = "large_file" -> "Review"
      [] OTHER -> "Delete"

\* PlanGenerator::default_action_for_rule
DefaultActionForRule(rule_name) ==
    CASE rule_name = "build_artifact" -> "Delete"
      [] rule_name = "large_file" -> "Review"
      [] OTHER -> "Review"

ProtectedCandidates ==
    {".git", ".hg", ".svn", "package.json", "Cargo.toml", "pyproject.toml"}

\* mutant: no path is protected
IsProtectedPathNever(f, p) == FALSE

\* is_protected_path of the plan generator
IsProtectedPath(f, p) == \E c \in ProtectedCandidates : Exists(f, Join(p, <<c>>))

\* strip_prefix(base).unwrap_or(path), with "." for the empty remainder
RelativePath(p, base) ==
    LET rel == IF IsPrefix(base, p) THEN SubSeq(p, Len(base) + 1, Len(p)) ELSE p
    IN  IF rel = << >> THEN <<".">> ELSE rel

IsChildOfDeleted(p, deleted) ==
    \E i \in 1..Len(deleted) : IsPrefix(deleted[i], p) /\ p # deleted[i]

\* the plan is created and the detections are sorted
GenerateStart ==
    /\ UNCHANGED outsideGenerator
    /\ gpc = "Idle"
    /\ gpc' = "Loop"
    /\ plan' = [base_path |-> plan.base_path, entries |-> << >>]
    /\ sorted' = SortByPathLen(detections)
    /\ gidx' = 1
    /\ deleted_paths' = << >>
    /\ sources' = << >>
    /\ UNCHANGED detections

\* one iteration of the loop over the sorted detections
GenerateStep ==
    /\ UNCHANGED outsideGenerator
    /\ gpc = "Loop"
    /\ gidx <= Len(sorted)
    /\ LET detection == sorted[gidx]
           path == detection.entry.path
           action == IF IsProtectedPath(fs, path) THEN "Review"
                     ELSE DefaultActionForRule(detection.rule_name)
       IN  IF IsChildOfDeleted(path, deleted_paths)
           THEN UNCHANGED <<plan, deleted_paths, sources>>
           ELSE /\ deleted_paths' =
                      IF detection.entry.entry_type = "Directory" /\ action = "Delete"
                      THEN Append(deleted_paths, path) ELSE deleted_paths
                /\ plan' = [plan EXCEPT !.entries = Append(@,
                       [path |-> RelativePath(path, plan.base_path),
                        size |-> detection.entry.size,
                        modified |-> Rfc3339(detection.entry.modified),
                        action |-> action,
                        rule_name |-> detection.rule_name,
                        reason |-> detection.reason])]
                /\ sources' = Append(sources, detection)
    /\ gidx' = gidx + 1
    /\ UNCHANGED <<detections, gpc, sorted>>

GenerateReturn ==
    /\ UNCHANGED outsideGenerator
    /\ gpc = "Loop"
    /\ gidx > Len(sorted)
    /\ gpc' = "Done"
    /\ UNCHANGED <<plan, detections, sorted, gidx, deleted_paths, sources>>

GeneratorNext ==
    \/ GenerateStart
    \/ GenerateStep
    \/ GenerateReturn

\* the plan generator is not part of this specification
GeneratorAbsent ==
    /\ detections = << >>
    /\ gpc = "NoGenerator"
    /\ sorted = << >>
    /\ gidx = 0
    /\ deleted_paths = << >>
    /\ sources = << >>

----------------------------------------------------------------------------
(* PlanWriter::write as a sequence of file operations.
   wrpc: Start -> CreateDir -> CreateTemp -> WriteTemp -> Rename -> Ok, with
   the exits ErrValidation and ErrIo, and Lost when the machine stops.
   A file name is <<stem>> or <<stem, extension>>; a name holds nothing, a
   directory, or a file whose text is whole or cut short. *)

NoFile == [kind |-> "absent", text |-> << >>, whole |-> TRUE]
Dir == [kind |-> "dir", text |-> << >>, whole |-> TRUE]
Text(t, whole) == [kind |-> "file", text |-> t, whole |-> whole]

\* the text of a plan written earlier
OldText == <<"old">>

\* serde_yaml::to_string(plan)
Serialize(p) == <<"yaml", p>>

\* target.parent()
OutDir == <<"out">>

\* PathBuf::set_extension: the extension is replaced, or added when there is none
SetExtension(name, ext) == <<name[1], ext>>

\* PlanWriter::temp_path
TempPath(t) == SetExtension(t, "tmp")

\* mutant: only the base path is validated
ValidateBaseOnly(p) == p.base_path # << >>

\* PlanWriter::validate
Validate(p) ==
    /\ p.base_path # << >>
    /\ \A i \in 1..Len(p.entries) : p.entries[i].path # << >>

\* validate, then serialize
WriteStart ==
    /\ UNCHANGED outsideWriter
    /\ wrpc = "Start"
    /\ wrpc' = IF Validate(plan) THEN "CreateDir" ELSE "ErrValidation"
    /\ UNCHANGED <<target, files, files0, dirty>>

\* write_atomic: fs::create_dir_all(parent), which can only fail when the
\* directory has to be made
WriteCreateDir ==
    /\ UNCHANGED outsideWriter
    /\ wrpc = "CreateDir"
    /\ \E ok \in BOOLEAN :
         IF ok \/ files[OutDir] = Dir
         THEN /\ files' = [files EXCEPT ![OutDir] = Dir]
              /\ wrpc' = "CreateTemp"
         ELSE /\ wrpc' = "ErrIo"
              /\ UNCHANGED files
    /\ UNCHANGED <<target, files0, dirty>>

\* fs::write, first half: File::create makes or truncates the temporary file
WriteTempCreate ==
    /\ UNCHANGED outsideWriter
    /\ wrpc = "CreateTemp"
    /\ \E ok \in BOOLEAN :
         IF ok
         THEN /\ files' = [files EXCEPT ![TempPath(target)] =
                                            Text(Serialize(plan), FALSE)]
              /\ dirty' = dirty \cup {TempPath(target)}
              /\ wrpc' = "WriteTemp"
         ELSE /\ wrpc' = "ErrIo"
              /\ UNCHANGED <<files, dirty>>
    /\ UNCHANGED <<target, files0>>

\* fs::write, second half: write_all; the file is closed without sync_all
WriteTempData ==
    /\ UNCHANGED outsideWriter
    /\ wrpc = "WriteTemp"
    /\ \E ok \in BOOLEAN :
         IF ok
         THEN /\ files' = [files EXCEPT ![TempPath(target)] =
                                            Text(Serialize(plan), TRUE)]
              /\ wrpc' = "Rename"
         ELSE /\ wrpc' = "ErrIo"
              /\ UNCHANGED files
    /\ UNCHANGED <<target, files0, dirty>>

\* fs::rename(temp_path, target); renaming a file onto itself changes nothing
WriteRename ==
    /\ UNCHANGED outsideWriter
    /\ wrpc = "Rename"
    /\ \E ok \in BOOLEAN :
         IF ok
         THEN /\ wrpc' = "Ok"
              /\ IF TempPath(target) = target
                 THEN UNCHANGED <<files, dirty>>
                 ELSE /\ files' = [files EXCEPT ![target] = files[TempPath(target)],
                                                ![TempPath(target)] = NoFile]
                      /\ dirty' = IF TempPath(target) \in dirty
                                  THEN (dirty \ {TempPath(target)}) \cup {target}
                                  ELSE dirty
         ELSE /\ wrpc' = "ErrIo"
              /\ UNCHANGED <<files, dirty>>
    /\ UNCHANGED <<target, files0>>

\* the machine stops: a text that was never synced may be cut short on the
\* stable storage
PowerLoss ==
    /\ UNCHANGED outsideWriter
    /\ wrpc \in {"WriteTemp", "Rename", "Ok", "ErrIo"}
    /\ dirty # {}
    /\ wrpc' = "Lost"
    /\ \E cut \in SUBSET dirty :
         files' = [n \in DOMAIN files |->
                      IF n \in cut THEN Text(files[n].text, FALSE) ELSE files[n]]
    /\ dirty' = {}
    /\ UNCHANGED <<target, files0>>

WriterNext ==
    \/ WriteStart
    \/ WriteCreateDir
    \/ WriteTempCreate
    \/ WriteTempData
    \/ WriteRename
    \/ PowerLoss

\* the plan writer is not part of this specification
WriterAbsent ==
    /\ target = << >>
    /\ wrpc = "NoWriter"
    /\ files = << >>
    /\ files0 = << >>
    /\ dirty = {}

----------------------------------------------------------------------------
(* FileScanner::scan and ParallelScanner::scan.

   Both iterate a WalkDir.  WalkDir is modelled as the stack of the items it
   has still to yield: yielding a directory above the depth limit opens it
   and puts its listing (or the error of opening it) in front of the rest.
   The trees hold no symbolic links, so follow_links changes nothing; the
   order of a listing is one fixed order among those read_dir may produce.
   A locked directory cannot be listed; a file may vanish during a scan.
   is_hidden is the one of the builds that are not for Windows. *)

ScanRoot == <<"/", "r">>

\* the names of the model that start with a dot
DotNames == {".", ".h"}

StartsWithDot(name) == name \in DotNames

ScanConfig(depth, hidden) ==
    [follow_links |-> FALSE, max_depth |-> depth, skip_hidden |-> hidden]

\* a walkdir::DirEntry, or the walkdir::Error met at a path
WalkEntry(p, d) == [err |-> FALSE, path |-> p, depth |-> d]
WalkError(p, d) == [err |-> TRUE, path |-> p, depth |-> d]

RECURSIVE SeqOfSet(_)
SeqOfSet(S) ==
    IF S = {} THEN << >>
    ELSE LET q == CHOOSE q \in S : TRUE IN <<q>> \o SeqOfSet(S \ {q})

\* read_dir: the entries of a directory
ReadDir(f, p) == SeqOfSet({q \in DOMAIN f : Parent(q) = p /\ Exists(f, q)})

\* WalkDir::new(root): the root is looked up when the iteration starts
WalkNew(f, root) ==
    IF Exists(f, root) THEN <<WalkEntry(root, 0)>> ELSE <<WalkError(root, 0)>>

\* what WalkDir puts on its stack when it yields the item: the listing of a
\* directory above max_depth, or the error of opening it
Pushed(f, cfg, item) ==
    IF /\ ~item.err
       /\ IsDir(f, item.path)
       /\ (cfg.max_depth = None \/ item.depth < cfg.max_depth[1])
    THEN IF f[item.path].locked
         THEN <<WalkError(item.path, item.depth + 1)>>
         ELSE LET list == ReadDir(f, item.path)
              IN  [i \in 1..Len(list) |-> WalkEntry(list[i], item.depth + 1)]
    ELSE << >>

\* the stack after the head item was yielded
WalkRest(f, cfg, stack) == Pushed(f, cfg, Head(stack)) \o Tail(stack)

\* FileScanner::should_skip: the entry alone is passed over, the walk goes on
\* beneath it
ShouldSkip(cfg, item) ==
    LET name == FileName(item.path)
    IN  /\ cfg.skip_hidden
        /\ name # None
        /\ StartsWithDot(name[1])
        /\ name[1] # "."

\* is_hidden of parallel.rs, used by filter_entry, which prunes the subtree
IsHidden(item) ==
    LET name == FileName(item.path)
    IN  name # None /\ StartsWithDot(name[1])

\* FileScanner::calculate_dir_size: a WalkDir beneath the directory, ended by
\* its first error
ScanDirSize(f, p) ==
    IF \E q \in Subtree(f, p) : IsDir(f, q) /\ f[q].locked
    THEN None
    ELSE Some(SumSizes(f, Subtree(f, p)))

\* FileScanner::to_file_entry: none for an error of metadata or of the size
ToFileEntry(f, p) ==
    IF ~Exists(f, p) THEN None
    ELSE IF IsDir(f, p)
    THEN LET size == ScanDirSize(f, p)
         IN  IF size = None THEN None
             ELSE Some(FileEntry(p, size[1], f[p].mtime, "Directory"))
    ELSE Some(FileEntry(p, f[p].size, f[p].mtime, "File"))

\* ParallelScanner::calculate_dir_size and calculate_dir_size_recursive: an
\* error only when the directory itself cannot be listed; a directory beneath
\* that cannot be listed counts for nothing
ListedFrom(f, p, q) ==
    \A d \in DOMAIN f : (IsPrefix(p, d) /\ IsStrictDescendant(q, d)) => ~f[d].locked

ParDirSize(f, p) ==
    IF ~IsDir(f, p) \/ f[p].locked
    THEN None
    ELSE Some(SumSizes(f, {q \in Subtree(f, p) : ListedFrom(f, p, q)}))

\* ScanError of parallel.rs, from the kind of the io::Error
ScanErrorOf(f, p) == IF Exists(f, p) THEN "PermissionDenied" ELSE "Io"

\* ParallelScanner::process_entry
ProcessEntry(f, p) ==
    IF ~Exists(f, p) THEN [ok |-> FALSE, err |-> ScanErrorOf(f, p)]
    ELSE IF IsDir(f, p)
    THEN LET size == ParDirSize(f, p)
         IN  IF size = None THEN [ok |-> FALSE, err |-> ScanErrorOf(f, p)]
             ELSE [ok |-> TRUE,
                   entry |-> FileEntry(p, size[1], f[p].mtime, "Directory")]
    ELSE [ok |-> TRUE, entry |-> FileEntry(p, f[p].size, f[p].mtime, "File")]

\* FileScanner::scan: the root must exist
ScanStart ==
    /\ spc = "Idle"
    /\ IF ~Exists(fs, ScanRoot)
       THEN /\ spc' = "ErrPathNotFound"
            /\ UNCHANGED <<swalk, sentries>>
       ELSE /\ spc' = "Walk"
            /\ swalk' = WalkNew(fs, ScanRoot)
            /\ sentries' = << >>
    /\ UNCHANGED <<fs, scfg, ppc, pwalk, paths, pending, pout, errors, outsideScanner>>

\* one iteration of the loop of FileScanner::scan
ScanStep ==
    /\ spc = "Walk"
    /\ swalk # << >>
    /\ LET item == Head(swalk)
           made == ToFileEntry(fs, item.path)
       IN  IF item.err
           THEN /\ spc' = "ErrWalk"
                /\ UNCHANGED <<swalk, sentries>>
           ELSE IF ShouldSkip(scfg, item)
           THEN /\ swalk' = WalkRest(fs, scfg, swalk)
                /\ UNCHANGED <<spc, sentries>>
           ELSE IF made = None
           THEN /\ spc' = "ErrWalk"
                /\ UNCHANGED <<swalk, sentries>>
           ELSE /\ sentries' = Append(sentries, made[1])
                /\ swalk' = WalkRest(fs, scfg, swalk)
                /\ UNCHANGED spc
    /\ UNCHANGED <<fs, scfg, ppc, pwalk, paths, pending, pout, errors, outsideScanner>>

ScanReturn ==
    /\ spc = "Walk"
    /\ swalk = << >>
    /\ spc' = "Ok"
    /\ UNCHANGED <<fs, scfg, swalk, sentries, ppc, pwalk, paths, pending, pout,
                   errors, outsideScanner>>

\* ParallelScanner::scan, phase 1
ParScanStart ==
    /\ ppc = "Idle"
    /\ ppc' = "Collect"
    /\ pwalk' = WalkNew(fs, ScanRoot)
    /\ paths' = << >>
    /\ UNCHANGED <<fs, scfg, spc, swalk, sentries, pending, pout, errors,
                   outsideScanner>>

\* one item of the walker of phase 1: filter_entry prunes a hidden entry with
\* what is beneath it, filter_map drops an error
ParScanCollect ==
    /\ ppc = "Collect"
    /\ pwalk # << >>
    /\ LET item == Head(pwalk)
       IN  IF item.err
           THEN /\ pwalk' = Tail(pwalk)
                /\ UNCHANGED paths
           ELSE IF scfg.skip_hidden /\ IsHidden(item)
           THEN /\ pwalk' = Tail(pwalk)
                /\ UNCHANGED paths
           ELSE /\ paths' = Append(paths, item.path)
                /\ pwalk' = WalkRest(fs, scfg, pwalk)
    /\ UNCHANGED <<fs, scfg, spc, swalk, sentries, ppc, pending, pout, errors,
                   outsideScanner>>

\* phase 1 is over: phase 2 starts on the collected paths
ParScanCollected ==
    /\ ppc = "Collect"
    /\ pwalk = << >>
    /\ ppc' = "Process"
    /\ pending' = 1..Len(paths)
    /\ pout' = [i \in 1..Len(paths) |-> None]
    /\ UNCHANGED <<fs, scfg, spc, swalk, sentries, pwalk, paths, errors,
                   outsideScanner>>

\* phase 2: a thread processes one of the paths
ParScanProcess ==
    /\ ppc = "Process"
    /\ \E i \in pending :
          LET result == ProcessEntry(fs, paths[i])
          IN  /\ pending' = pending \ {i}
              /\ IF result.ok
                 THEN /\ pout' = [pout EXCEPT ![i] = Some(result.entry)]
                      /\ UNCHANGED errors
                 ELSE /\ errors' = Append(errors, result.err)
                      /\ UNCHANGED pout
    /\ UNCHANGED <<fs, scfg, spc, swalk, sentries, ppc, pwalk, paths,
                   outsideScanner>>

ParScanReturn ==
    /\ ppc = "Process"
    /\ pending = {}
    /\ ppc' = "Ok"
    /\ UNCHANGED <<fs, scfg, spc, swalk, sentries, pwalk, paths, pending, pout,
                   errors, outsideScanner>>

\* the environment: a file of the tree is removed while a scan is going on
Vanish ==
    /\ fs = fs0
    /\ spc = "Walk" \/ ppc \in {"Collect", "Process"}
    /\ \E p \in DOMAIN fs :
          /\ IsFile(fs, p)
          /\ fs' = [fs EXCEPT ![p] = Absent]
    /\ UNCHANGED <<scanVars, outsideScanner>>

ScannerNext ==
    \/ ScanStart
    \/ ScanStep
    \/ ScanReturn
    \/ ParScanStart
    \/ ParScanCollect
    \/ ParScanCollected
    \/ ParScanProcess
    \/ ParScanReturn
    \/ Vanish

----------------------------------------------------------------------------
(* AdvancedProgress: increment, record_throughput_sample and
   current_throughput.  The workers of a parallel batch call increment on
   one shared tracker; the counter is an atomic, the history lies behind a
   mutex. *)

\* a sample is recorded at every SampleEvery-th item
SampleEvery == 100

\* the window of the throughput history, in seconds
WindowSecs == 10

\* the items the workers process between them, and how long the clock runs
MaxProcessed == MaxWorkers * SampleEvery
MaxNow == WindowSecs + 1

ProgressWorkers == 1..MaxWorkers

ThroughputSample(t, n) == [timestamp |-> t, items_processed |-> n]

\* the loop that pops the samples at the front that are older than the cutoff
RECURSIVE PopOld(_, _)
PopOld(history, cutoff) ==
    IF history # << >> /\ Head(history).timestamp < cutoff
    THEN PopOld(Tail(history), cutoff)
    ELSE history

\* record_throughput_sample, the part under the mutex
RecordThroughputSample(history, t, n) ==
    PopOld(Append(history, ThroughputSample(t, n)), t - WindowSecs)

\* increment, up to the mutex: the atomic fetch_add; a new value that is no
\* multiple of SampleEvery ends the call
IncrementFetchAdd(k) ==
    /\ UNCHANGED outsideProgress
    /\ fetched[k] = 0
    /\ processed < MaxProcessed
    /\ processed' = processed + 1
    /\ fetched' = [fetched EXCEPT ![k] =
                      IF (processed + 1) % SampleEvery = 0 THEN processed + 1 ELSE 0]
    /\ UNCHANGED <<throughput_history, now>>

\* increment, from the mutex on: the worker records the value it has fetched
IncrementRecord(k) ==
    /\ UNCHANGED outsideProgress
    /\ fetched[k] # 0
    /\ throughput_history' =
          RecordThroughputSample(throughput_history, now, fetched[k])
    /\ fetched' = [fetched EXCEPT ![k] = 0]
    /\ UNCHANGED <<processed, now>>

\* a second passes
Tick ==
    /\ UNCHANGED outsideProgress
    /\ now < MaxNow
    /\ now' = now + 1
    /\ UNCHANGED <<processed, throughput_history, fetched>>

ProgressNext ==
    \/ \E k \in ProgressWorkers : IncrementFetchAdd(k)
    \/ \E k \in ProgressWorkers : IncrementRecord(k)
    \/ Tick

\* current_throughput: what a call may return.  The item counts are
\* subtracted before the duration is looked at; a u64 subtraction below zero
\* panics in a build with overflow checks and wraps in one without (items
\* then holds the difference, to be read modulo 2^64).  The clock counts
\* whole seconds, so a duration under a tenth of a second is the duration 0.
CurrentThroughput(history) ==
    LET none == [kind |-> "None", items |-> 0, secs |-> 0]
    IN  IF Len(history) < 2 THEN {none}
        ELSE LET first == Head(history)
                 last == history[Len(history)]
                 duration == last.timestamp - first.timestamp
                 items == last.items_processed - first.items_processed
                 rest(kind) == IF duration = 0 THEN none
                               ELSE [kind |-> kind, items |-> items, secs |-> duration]
             IN  IF items < 0
                 THEN {[kind |-> "Panic", items |-> 0, secs |-> 0], rest("Wrapped")}
                 ELSE {rest("Some")}

\* the progress tracker is not part of this specification
ProgressAbsent ==
    /\ processed = 0
    /\ throughput_history = << >>
    /\ fetched = << >>
    /\ now = 0

\* the scanners are not part of this specification
ScannerAbsent ==
    /\ scfg = << >>
    /\ spc = "NoScanner"
    /\ swalk = << >>
    /\ sentries = << >>
    /\ ppc = "NoScanner"
    /\ pwalk = << >>
    /\ paths = << >>
    /\ pending = {}
    /\ pout = << >>
    /\ errors = << >>

----------------------------------------------------------------------------
(* Inputs of the verification model *)

\* the instant the files of the tree were last written
T0 == 6

\* the tree of the execution model with sizes and times: x and b hold one byte
VerTree ==
    [q \in ExecUniverse |->
        CASE q \in {BasePath, BackupDir, Join(BasePath, <<"a">>)} ->
                [DirNode EXCEPT !.mtime = T0]
          [] q \in {Join(BasePath, <<"a", "x">>), Join(BasePath, <<"b">>)} -> FileNode(1, T0)
          [] OTHER -> Absent]

\* the tree as planned, b gone, b grown, or the directory a not listable
VerFsInits ==
    { VerTree,
      [VerTree EXCEPT ![Join(BasePath, <<"b">>)] = Absent],
      [VerTree EXCEPT ![Join(BasePath, <<"b">>)].size = 2],
      [VerTree EXCEPT ![Join(BasePath, <<"a">>)].locked = TRUE] }

VerEntry(rel, sz, stamp, action) ==
    [path |-> rel, size |-> sz, modified |-> stamp, action |-> action,
     rule_name |-> "large_file", reason |-> "r"]

\* plan entries: as scanned, with a stale size, with a timestamp inside and
\* outside the tolerance (both directions), unparsable, a directory, and a
\* Keep entry for which nothing matches
VerEntries ==
    { VerEntry(<<"b">>, 1, Rfc3339(T0), "Delete"),
      VerEntry(<<"b">>, 1, Rfc3339(T0), "Review"),
      VerEntry(<<"b">>, 2, Rfc3339(T0), "Delete"),
      VerEntry(<<"b">>, 1, Rfc3339(T0 + 5), "Delete"),
      VerEntry(<<"b">>, 1, Rfc3339(T0 + 6), "Delete"),
      VerEntry(<<"b">>, 1, Rfc3339(T0 - 6), "Review"),
      VerEntry(<<"b">>, 1, BadTimestamp, "Delete"),
      VerEntry(<<"a">>, 1, Rfc3339(T0), "Delete"),
      VerEntry(<<"b">>, 2, Rfc3339(T0 + 6), "Keep") }

\* sequences that hold no entry twice
Distinct(es) == \A i, j \in DOMAIN es : es[i] = es[j] => i = j

VerPlans ==
    {[base_path |-> BasePath, entries |-> es] :
        es \in {q \in UNION {[1..n -> VerEntries] : n \in 0..MaxEntries} :
                    Distinct(q)}}

VerConfigs ==
    {[check_mtime |-> m, check_size |-> sz, fail_fast |-> ff] :
        m \in BOOLEAN, sz \in BOOLEAN, ff \in BOOLEAN}

VerifierInit ==
    /\ vpc = "Idle"
    /\ vidx = 0
    /\ vresult = EmptyResult([entries |-> << >>])
    /\ vprev = None

\* the engine is not part of this specification
EngineAbsent ==
    /\ config = [mode |-> "Batch", backup_dir |-> None, fail_fast |-> FALSE,
                 use_recycle_bin |-> FALSE, parallel |-> FALSE, batch_size |-> 100]
    /\ epc = "NoEngine"
    /\ cursor = 0
    /\ operations = << >>
    /\ batchNo = 0
    /\ wstate = << >>
    /\ wres = << >>
    /\ shouldAbort = FALSE
    /\ progress = [total |-> 0, processed |-> 0]
    /\ execResult = None
    /\ trace = << >>
    /\ started = {}

\* the verifier is not part of this specification
VerifierAbsent ==
    /\ vcfg = [check_mtime |-> TRUE, check_size |-> TRUE, fail_fast |-> FALSE]
    /\ vpc = "NoVerifier"
    /\ vidx = 0
    /\ vresult = EmptyResult([entries |-> << >>])
    /\ vprev = None

\* run_execute is not part of this specification
RunAbsent ==
    /\ opts = [dry_run |-> FALSE, interactive |-> FALSE, backup_dir |-> None,
               recycle_bin |-> FALSE, fail_fast |-> FALSE, skip_verify |-> FALSE,
               parallel |-> FALSE, batch_size |-> 100]
    /\ mcfg = [executor |-> [backup_dir |-> None, fail_fast |-> FALSE,
                             use_recycle_bin |-> FALSE, parallel |-> FALSE],
               verifier |-> [check_mtime |-> TRUE, check_size |-> TRUE,
                             fail_fast |-> FALSE]]
    /\ rpc = "NoRun"
    /\ logger = None
    /\ logfile = None

VerifyInit ==
    /\ RunAbsent
    /\ DetectorAbsent
    /\ GeneratorAbsent
    /\ plan \in VerPlans
    /\ fs \in VerFsInits
    /\ fs0 = fs
    /\ vcfg \in VerConfigs
    /\ VerifierInit
    /\ EngineAbsent
    /\ WriterAbsent
    /\ ScannerAbsent
    /\ ProgressAbsent

SpecVerify == VerifyInit /\ [][VerifyTwiceNext]_vars

----------------------------------------------------------------------------
(* Inputs of the execution model *)

\* a tree where a is a directory holding the file x, and b is a file
ExecTree ==
    [q \in ExecUniverse |->
        CASE q \in {BasePath, BackupDir, Join(BasePath, <<"a">>)} -> DirNode
          [] q \in {Join(BasePath, <<"a", "x">>), Join(BasePath, <<"b">>)} -> FileNode(1, 0)
          [] OTHER -> Absent]

\* the states of the tree an execution may find: complete, b gone since the
\* plan was made, or x locked
ExecFsInits ==
    { ExecTree,
      [ExecTree EXCEPT ![Join(BasePath, <<"b">>)] = Absent],
      [ExecTree EXCEPT ![Join(BasePath, <<"a", "x">>)].locked = TRUE] }

ExecEntry(rel, action) ==
    [path |-> rel, size |-> 1, modified |-> Rfc3339(0), action |-> action,
     rule_name |-> "build_artifact", reason |-> "r"]

\* Delete on every path; the inert dispositions on the directory and on a file
ExecEntries ==
    {ExecEntry(rel, "Delete") : rel \in ExecRel}
        \cup {ExecEntry(<<"a">>, "Keep"), ExecEntry(<<"b">>, "Review")}

\* the plans of up to MaxEntries entries that hold no entry twice
ExecPlans ==
    {[base_path |-> BasePath, entries |-> es] :
        es \in {q \in UNION {[1..n -> ExecEntries] : n \in 0..MaxEntries} :
                    Distinct(q)}}

ExecConfigs ==
    {[mode |-> m, backup_dir |-> b, fail_fast |-> ff, use_recycle_bin |-> rb,
      parallel |-> par, batch_size |-> bs] :
        m \in Modes, b \in {None, Some(BackupDir)}, ff \in BOOLEAN, rb \in BOOLEAN,
        par \in BOOLEAN, bs \in 0..MaxBatch}

EngineInit ==
    /\ epc = "NotStarted"
    /\ cursor = 0
    /\ operations = << >>
    /\ batchNo = 0
    /\ wstate = << >>
    /\ wres = << >>
    /\ shouldAbort = FALSE
    /\ progress = [total |-> 0, processed |-> 0]
    /\ execResult = None
    /\ trace = << >>
    /\ started = {}

ExecInit ==
    /\ VerifierAbsent
    /\ RunAbsent
    /\ DetectorAbsent
    /\ GeneratorAbsent
    /\ WriterAbsent
    /\ ScannerAbsent
    /\ ProgressAbsent
    /\ plan \in ExecPlans
    /\ fs \in ExecFsInits
    /\ fs0 = fs
    /\ config \in {c \in ExecConfigs : c.parallel \/ c.batch_size = MaxBatch}
    /\ EngineInit

SpecExec == ExecInit /\ [][EngineNext]_vars

\* a plan file edited by hand: one of its Delete entries names the absolute
\* path of a file outside the base path
HandEditedEntries ==
    {ExecEntry(Outside, "Delete"), ExecEntry(<<"b">>, "Delete"),
     ExecEntry(<<"a">>, "Keep")}

HandEditedPlans ==
    {[base_path |-> BasePath, entries |-> es] :
        es \in {q \in UNION {[1..n -> HandEditedEntries] : n \in 1..MaxEntries} :
                    \E i \in DOMAIN q : q[i].path = Outside}}

\* the tree of the execution model and the file outside it, which the
\* process may or may not remove
HandEditedFsInits ==
    { [ExecTree EXCEPT ![Outside] = FileNode(1, 0)],
      [ExecTree EXCEPT ![Outside] = [FileNode(1, 0) EXCEPT !.locked = TRUE]] }

HandEditedInit ==
    /\ VerifierAbsent
    /\ RunAbsent
    /\ DetectorAbsent
    /\ GeneratorAbsent
    /\ WriterAbsent
    /\ ScannerAbsent
    /\ ProgressAbsent
    /\ plan \in HandEditedPlans
    /\ fs \in HandEditedFsInits
    /\ fs0 = fs
    /\ config \in {c \in ExecConfigs : c.parallel \/ c.batch_size = MaxBatch}
    /\ EngineInit

SpecHandEdited == HandEditedInit /\ [][EngineNext]_vars

----------------------------------------------------------------------------
(* Inputs of the run model *)

\* the tree of the verification model as planned, b gone, b grown, the
\* directory a not listable, or the file x locked
RunFsInits ==
    VerFsInits \cup {[VerTree EXCEPT ![Join(BasePath, <<"a", "x">>)].locked = TRUE]}

\* plan entries: b and the directory a as scanned, b with a stale size, b with
\* an unparsable timestamp, b for review, and x kept with a stale timestamp
RunEntries ==
    { VerEntry(<<"b">>, 1, Rfc3339(T0), "Delete"),
      VerEntry(<<"a">>, 1, Rfc3339(T0), "Delete"),
      VerEntry(<<"b">>, 2, Rfc3339(T0), "Delete"),
      VerEntry(<<"b">>, 1, BadTimestamp, "Delete"),
      VerEntry(<<"b">>, 1, Rfc3339(T0), "Review"),
      VerEntry(<<"a", "x">>, 1, Rfc3339(T0 + 6), "Keep") }

RunPlans ==
    {[base_path |-> BasePath, entries |-> es] :
        es \in {q \in UNION {[1..n -> RunEntries] : n \in 0..MaxEntries} :
                    Distinct(q)}}

\* the command line without flags
NoFlags ==
    [dry_run |-> FALSE, interactive |-> FALSE, backup_dir |-> None,
     recycle_bin |-> FALSE, fail_fast |-> FALSE, skip_verify |-> FALSE,
     parallel |-> FALSE, batch_size |-> MaxBatch]

\* command lines: no flag, each flag alone, and the parallel combinations
RunOptions ==
    { NoFlags,
      [NoFlags EXCEPT !.skip_verify = TRUE],
      [NoFlags EXCEPT !.dry_run = TRUE],
      [NoFlags EXCEPT !.interactive = TRUE],
      [NoFlags EXCEPT !.backup_dir = Some(BackupDir)],
      [NoFlags EXCEPT !.recycle_bin = TRUE],
      [NoFlags EXCEPT !.fail_fast = TRUE],
      [NoFlags EXCEPT !.parallel = TRUE, !.batch_size = 1],
      [NoFlags EXCEPT !.parallel = TRUE, !.batch_size = 0],
      [NoFlags EXCEPT !.parallel = TRUE, !.interactive = TRUE] }

\* the default configuration, and a configuration file that sets the executor
\* and verifier sections
RunConfigs ==
    { [executor |-> [backup_dir |-> None, fail_fast |-> FALSE,
                     use_recycle_bin |-> FALSE, parallel |-> FALSE],
       verifier |-> [check_mtime |-> TRUE, check_size |-> TRUE,
                     fail_fast |-> FALSE]],
      [executor |-> [backup_dir |-> Some(BackupDir), fail_fast |-> TRUE,
                     use_recycle_bin |-> FALSE, parallel |-> TRUE],
       verifier |-> [check_mtime |-> FALSE, check_size |-> TRUE,
                     fail_fast |-> TRUE]] }

RunInit ==
    /\ plan \in RunPlans
    /\ fs \in RunFsInits
    /\ fs0 = fs
    /\ opts \in RunOptions
    /\ mcfg \in RunConfigs
    /\ rpc = "Start"
    /\ logger = None
    /\ logfile = None
    /\ EngineAbsent
    /\ VerifierAbsent
    /\ DetectorAbsent
    /\ GeneratorAbsent
    /\ WriterAbsent
    /\ ScannerAbsent
    /\ ProgressAbsent

SpecRun == RunInit /\ [][RunNext]_vars

----------------------------------------------------------------------------
(* Inputs of the detection model *)

DetRoot == <<"/", "r">>

\* a project: manifest, sources, a large file, build output (with a nested
\* target directory) and a directory Build
DetTree ==
    (DetRoot :> DirNode)
    @@ (<<".">> :> DirNode)
    @@ (Join(DetRoot, <<"Cargo.toml">>) :> FileNode(1, 0))
    @@ (Join(DetRoot, <<"src">>) :> DirNode)
    @@ (Join(DetRoot, <<"main.rs">>) :> FileNode(1, 0))
    @@ (Join(DetRoot, <<"NOTES.PY">>) :> FileNode(1, 0))
    @@ (Join(DetRoot, <<"big.bin">>) :> FileNode(1, 0))
    @@ (Join(DetRoot, <<"build">>) :> DirNode)
    @@ (Join(DetRoot, <<"build", "target">>) :> DirNode)
    @@ (Join(DetRoot, <<"build", "o.bin">>) :> FileNode(1, 0))
    @@ (Join(DetRoot, <<"Build">>) :> DirNode)

\* project-root markers that some directory of the tree may hold in addition
DetMarkers ==
    { Join(DetRoot, <<"build", "package.json">>),
      Join(DetRoot, <<"build", ".git">>),
      Join(DetRoot, <<"build", "pyproject.toml">>),
      Join(DetRoot, <<"build", "target", "Cargo.toml">>),
      Join(DetRoot, <<"Build", ".hg">>) }

MarkerNode(q) ==
    IF q[Len(q)] \in {".git", ".hg", ".svn"} THEN DirNode ELSE FileNode(1, 0)

\* the tree, the tree with one more marker, the tree without its manifest,
\* and the tree from which main.rs has gone since it was scanned
DetFsInits ==
    {DetTree} \cup {(q :> MarkerNode(q)) @@ DetTree : q \in DetMarkers}
              \cup {[q \in DOMAIN DetTree \ {Join(DetRoot, <<"Cargo.toml">>)} |-> DetTree[q]]}
              \cup {[q \in DOMAIN DetTree \ {Join(DetRoot, <<"main.rs">>)} |-> DetTree[q]]}

EntryTypeOf(f, p) == IF IsDir(f, p) THEN "Directory" ELSE "File"

\* the paths a scan reports, and the sizes it may report for each
DetScanned ==
    [p \in { DetRoot, <<".">>, Join(DetRoot, <<"src">>), Join(DetRoot, <<"main.rs">>),
             Join(DetRoot, <<"NOTES.PY">>), Join(DetRoot, <<"big.bin">>),
             Join(DetRoot, <<"build">>), Join(DetRoot, <<"build", "target">>),
             Join(DetRoot, <<"Build">>) } |->
        IF p \in {Join(DetRoot, <<"big.bin">>), Join(DetRoot, <<"build">>)}
        THEN {DefaultThresholdBytes - 1, DefaultThresholdBytes}
        ELSE IF p \in {Join(DetRoot, <<"build", "target">>), <<".">>}
        THEN {0}
        ELSE {DefaultThresholdBytes}]

DetEntries(f) ==
    UNION {{FileEntry(p, sz, 0, EntryTypeOf(f, p)) : sz \in DetScanned[p]} :
               p \in DOMAIN DetScanned}

\* DetectionEngine::new, the engine run_scan builds, engines with one rule,
\* and an engine whose one rule matches every entry (a size threshold of 0)
DetRuleLists ==
    { DetectionEngineNew,
      RunScanEngine,
      <<BuildArtifactRule>>,
      <<SizeThresholdRule(DefaultThresholdBytes)>>,
      <<SizeThresholdRule(0)>> }

DetectorInit ==
    /\ dpc = "Idle"
    /\ didx = 0
    /\ results = << >>
    /\ dprev = None

DetectInit ==
    /\ fs \in DetFsInits
    /\ fs0 = fs
    /\ entries \in UNION {[1..n -> DetEntries(fs)] : n \in 0..MaxEntries}
    /\ rules \in DetRuleLists
    /\ DetectorInit
    /\ plan = [base_path |-> DetRoot, entries |-> << >>]
    /\ EngineAbsent
    /\ VerifierAbsent
    /\ RunAbsent
    /\ GeneratorAbsent
    /\ WriterAbsent
    /\ ScannerAbsent
    /\ ProgressAbsent

SpecDetect == DetectInit /\ [][DetectTwiceNext]_vars

----------------------------------------------------------------------------
(* Inputs of the plan model *)

CustomRule ==
    [name |-> "old_logs", threshold_bytes |-> 0, patterns |-> {},
     reason |-> <<"custom">>]

\* detections on the base directory, on build and what lies beneath it, on
\* entries next to build, and on a directory outside the base directory, by
\* the built-in rules and by a custom rule
PlanDetections(f) ==
    LET dir(p) == FileEntry(p, DefaultThresholdBytes, T0, "Directory")
        file(p) == FileEntry(p, DefaultThresholdBytes, T0, "File")
    IN  { DetectionResult(dir(DetRoot), BuildArtifactRule),
          DetectionResult(dir(Join(DetRoot, <<"build">>)), BuildArtifactRule),
          DetectionResult(dir(Join(DetRoot, <<"build">>)),
                          SizeThresholdRule(DefaultThresholdBytes)),
          DetectionResult(dir(Join(DetRoot, <<"build", "target">>)), BuildArtifactRule),
          DetectionResult(file(Join(DetRoot, <<"build", "o.bin">>)),
                          SizeThresholdRule(DefaultThresholdBytes)),
          DetectionResult(file(Join(DetRoot, <<"big.bin">>)),
                          SizeThresholdRule(DefaultThresholdBytes)),
          DetectionResult(dir(Join(DetRoot, <<"Build">>)), CustomRule),
          DetectionResult(dir(<<"/", "s", "build">>), BuildArtifactRule) }

GeneratorInit ==
    /\ gpc = "Idle"
    /\ sorted = << >>
    /\ gidx = 0
    /\ deleted_paths = << >>
    /\ sources = << >>

PlanInit ==
    /\ fs \in DetFsInits
    /\ fs0 = fs
    /\ detections \in UNION {[1..n -> PlanDetections(fs)] : n \in 0..MaxDetections}
    /\ plan = [base_path |-> DetRoot, entries |-> << >>]
    /\ GeneratorInit
    /\ EngineAbsent
    /\ VerifierAbsent
    /\ RunAbsent
    /\ DetectorAbsent
    /\ WriterAbsent
    /\ ScannerAbsent
    /\ ProgressAbsent

SpecPlan == PlanInit /\ [][GeneratorNext]_vars

----------------------------------------------------------------------------
(* Inputs of the writer model *)

WriteTargets == {<<"plan", "yaml">>, <<"plan", "tmp">>, <<"plan">>}

WriteNames == WriteTargets \cup {OutDir}

\* entries with an empty path, the sentinel and a relative path
WriteEntries ==
    {ExecEntry(rel, "Delete") : rel \in {<< >>, <<".">>, <<"build">>}}

WritePlans ==
    {[base_path |-> b, entries |-> es] :
        b \in {<< >>, BasePath},
        es \in UNION {[1..n -> WriteEntries] : n \in 0..MaxEntries}}

\* the output directory before the write: missing, or holding any of an
\* earlier plan at the target and a file left over at the temporary name
WriteFilesInits(t) ==
    {f \in [WriteNames -> {NoFile, Dir, Text(OldText, TRUE)}] :
        /\ f[OutDir] \in {NoFile, Dir}
        /\ \A n \in WriteTargets :
              /\ f[n] \in {NoFile, Text(OldText, TRUE)}
              /\ f[n] # NoFile => (f[OutDir] = Dir /\ n \in {t, TempPath(t)})}

WriteInit ==
    /\ target \in WriteTargets
    /\ plan \in WritePlans
    /\ files \in WriteFilesInits(target)
    /\ files0 = files
    /\ dirty = {}
    /\ wrpc = "Start"
    /\ fs = [p \in {} |-> Absent]
    /\ fs0 = fs
    /\ EngineAbsent
    /\ VerifierAbsent
    /\ RunAbsent
    /\ DetectorAbsent
    /\ GeneratorAbsent
    /\ ScannerAbsent
    /\ ProgressAbsent

SpecWrite == WriteInit /\ [][WriterNext]_vars

----------------------------------------------------------------------------
(* Inputs of the scanner model *)

\* a hidden directory with a file in it, a directory with a file, and a file
ScanTree ==
    (ScanRoot :> DirNode)
    @@ (Join(ScanRoot, <<".h">>) :> DirNode)
    @@ (Join(ScanRoot, <<".h", "c">>) :> FileNode(1, 0))
    @@ (Join(ScanRoot, <<"d">>) :> DirNode)
    @@ (Join(ScanRoot, <<"d", "f">>) :> FileNode(2, 0))
    @@ (Join(ScanRoot, <<"g">>) :> FileNode(1, 0))

\* the tree; the tree with nothing hidden; with the hidden directory or the
\* directory d not listable; and no tree at all
ScanFsInits ==
    { ScanTree,
      RemoveTree(ScanTree, Join(ScanRoot, <<".h">>)),
      [ScanTree EXCEPT ![Join(ScanRoot, <<".h">>)].locked = TRUE],
      [ScanTree EXCEPT ![Join(ScanRoot, <<"d">>)].locked = TRUE],
      RemoveTree(ScanTree, ScanRoot) }

ScanConfigs ==
    {ScanConfig(depth, hidden) : depth \in {None, Some(1)}, hidden \in BOOLEAN}

ScanInit ==
    /\ fs \in ScanFsInits
    /\ fs0 = fs
    /\ plan = << >>
    /\ scfg \in ScanConfigs
    /\ spc = "Idle"
    /\ swalk = << >>
    /\ sentries = << >>
    /\ ppc = "Idle"
    /\ pwalk = << >>
    /\ paths = << >>
    /\ pending = {}
    /\ pout = << >>
    /\ errors = << >>
    /\ ProgressAbsent
    /\ EngineAbsent
    /\ VerifierAbsent
    /\ RunAbsent
    /\ DetectorAbsent
    /\ GeneratorAbsent
    /\ WriterAbsent

SpecScan == ScanInit /\ [][ScannerNext]_vars

----------------------------------------------------------------------------
(* The progress model: AdvancedProgress::new, then increment from the workers *)

ProgressInit ==
    /\ fs = << >>
    /\ fs0 = fs
    /\ plan = << >>
    /\ EngineAbsent
    /\ VerifierAbsent
    /\ RunAbsent
    /\ DetectorAbsent
    /\ GeneratorAbsent
    /\ WriterAbsent
    /\ ScannerAbsent
    /\ processed = 0
    /\ throughput_history = << >>
    /\ fetched = [k \in ProgressWorkers |-> 0]
    /\ now = 0

SpecProgress == ProgressInit /\ [][ProgressNext]_vars

----------------------------------------------------------------------------
(* Properties of the execution engine *)

DeleteEntries == {j \in 1..Len(plan.entries) : plan.entries[j].action = "Delete"}
InertEntries == {j \in 1..Len(plan.entries) : plan.entries[j].action \in {"Keep", "Review"}}

\* the plan entry behind a position of entries_to_process
EntryAt(k) == plan.entries[DeleteIdx(plan)[k]]

Executed == {trace[i].pos : i \in {j \in 1..Len(trace) : trace[j].ev = "exec"}}

\* a path the run may change on behalf of the Delete entry e
MayChange(e, q) ==
    \/ IsPrefix(FullPath(plan, e), q)
    \/ /\ config.backup_dir # None
       /\ \/ IsPrefix(Join(BackupDir, e.path), q)
          \/ IsPrefix(q, Join(BackupDir, e.path))

\* C1: only entries whose action is Delete are acted on: every prompt and every
\* execute_single call is for a Delete entry, every operation record carries the
\* path of a Delete entry, every path that changed lies under a Delete entry (or
\* at its backup destination), and the summary counts no more operations or
\* skips than there are Delete entries.
C1_OnlyDeleteEntriesActedOn ==
    /\ \A i \in 1..Len(trace) : EntryAt(trace[i].pos).action = "Delete"
    /\ \A k \in started : EntryAt(k).action = "Delete"
    /\ Len(operations) <= Cardinality(DeleteEntries)
    /\ \A i \in 1..Len(operations) :
          \E j \in DeleteEntries :
              operations[i].path = FullPath(plan, plan.entries[j])
    /\ \A q \in DOMAIN fs :
          fs[q] # fs0[q] => \E j \in DeleteEntries : MayChange(plan.entries[j], q)
    /\ execResult # None =>
          /\ execResult[1].summary.total_operations = Len(execResult[1].operations)
          /\ execResult[1].summary.total_operations <= Cardinality(DeleteEntries)
          /\ execResult[1].summary.skipped <= Cardinality(DeleteEntries)
          /\ (DeleteEntries = {} => execResult[1].summary.total_operations = 0)

\* C1 witness: a completed run over a plan with an inert (Keep or Review) entry
\* and a Delete entry; one operation was recorded, the filesystem changed, and
\* the inert entry's own path is as it was
C1_Witness ==
    /\ epc = "Completed"
    /\ Len(operations) = 1
    /\ operations[1].status = "Success"
    /\ fs # fs0
    /\ \E j \in InertEntries :
          LET q == FullPath(plan, plan.entries[j])
          IN  Exists(fs, q) /\ fs[q] = fs0[q]

\* C3: in DryRun mode the filesystem never changes, and what execute returns
\* holds one operation per Delete entry, in plan order, each with status DryRun;
\* the summary counts all of them as successful and none as failed.
C3_DryRunTouchesNothing ==
    config.mode = "DryRun" =>
        /\ fs = fs0
        /\ execResult # None =>
              LET r == execResult[1]
                  n == Cardinality(DeleteEntries)
              IN  /\ Len(r.operations) = n
                  /\ \A k \in 1..Len(r.operations) :
                        /\ r.operations[k].status = "DryRun"
                        /\ r.operations[k].path = FullPath(plan, EntryAt(k))
                  /\ r.summary.total_operations = n
                  /\ r.summary.successful = n
                  /\ r.summary.failed = 0
                  /\ r.summary.skipped = 0

\* C3 witness: a parallel dry run with a backup directory configured returned
\* two operations although the file b is missing
C3_Witness ==
    /\ config.mode = "DryRun"
    /\ config.parallel
    /\ config.backup_dir # None
    /\ ~Exists(fs, Join(BasePath, <<"b">>))
    /\ execResult # None
    /\ Len(execResult[1].operations) = 2
    /\ \E j \in DeleteEntries : plan.entries[j].path = <<"b">>

\* C5: with parallel and Interactive both requested, execute only ever ends in
\* the configuration error: no prompt, no worker, no operation, no result, the
\* progress counters and the filesystem as they were.
C5_ParallelInteractiveRejected ==
    (config.parallel /\ config.mode = "Interactive") =>
        /\ epc \in {"NotStarted", "ConfigError"}
        /\ operations = << >>
        /\ trace = << >>
        /\ started = {}
        /\ progress = [total |-> 0, processed |-> 0]
        /\ execResult = None
        /\ fs = fs0

\* C5 witness: the configuration error, for a plan with something to delete
C5_Witness ==
    /\ epc = "ConfigError"
    /\ DeleteEntries # {}
    /\ config.batch_size > 0

\* C8: sequential execution with fail_fast: a Failed operation is the last
\* operation recorded, the loop has been left, nothing at a later position was
\* prompted for or executed, and the summary reports exactly one failure.
C8_SequentialFailFast ==
    (~config.parallel /\ config.fail_fast) =>
        /\ \A i \in 1..Len(operations) :
              operations[i].status = "Failed" =>
                  /\ i = Len(operations)
                  /\ epc \in {"SeqBroken", "Completed"}
                  /\ \A j \in 1..Len(trace) : trace[j].pos <= i
        /\ execResult # None =>
              /\ execResult[1].operations = operations
              /\ execResult[1].summary.failed <= 1
              /\ (execResult[1].summary.failed = 1 =>
                     operations[Len(operations)].status = "Failed")

\* C8 witness: the run returned after the first of two Delete entries failed;
\* the second was never attempted
C8_Witness ==
    /\ ~config.parallel
    /\ config.fail_fast
    /\ epc = "Completed"
    /\ Cardinality(DeleteEntries) = 2
    /\ Len(operations) = 1
    /\ operations[1].status = "Failed"
    /\ Executed = {1}

FailedAt(ops) == {i \in 1..Len(ops) : ops[i].status = "Failed"}

\* C9: parallel execution with fail_fast: no worker starts an entry of a batch
\* that follows a batch with a Failed operation, and what execute returns is
\* the operations of batches 1..k in full, k being the first batch with a
\* failure (every batch if none failed), each entry attempted exactly once.
C9_ParallelFailFast ==
    (config.parallel /\ config.fail_fast) =>
        /\ \A k \in started : \A i \in FailedAt(operations) : BatchOf(i) >= BatchOf(k)
        /\ execResult # None =>
              LET ops == execResult[1].operations
                  n == Cardinality(DeleteEntries)
                  len == IF FailedAt(ops) = {} THEN n
                         ELSE LET first == CHOOSE i \in FailedAt(ops) :
                                               \A j \in FailedAt(ops) : i <= j
                              IN  Min(BatchOf(first) * config.batch_size, n)
              IN  /\ Len(ops) = len
                  /\ \A i \in 1..Len(ops) :
                        /\ ops[i].status \in {"Success", "Failed", "DryRun"}
                        /\ ops[i].path = FullPath(plan, EntryAt(i))
                  /\ started = 1..len
                  /\ Executed = 1..len
                  /\ Len(trace) = len

\* C9 witness: batch size 1, two Delete entries; the first batch failed and
\* was returned, the entry of the second batch was never started
C9_Witness ==
    /\ config.parallel
    /\ config.fail_fast
    /\ config.batch_size = 1
    /\ Cardinality(DeleteEntries) = 2
    /\ execResult # None
    /\ Len(operations) = 1
    /\ operations[1].status = "Failed"
    /\ started = {1}

----------------------------------------------------------------------------
(* Properties of the verification engine *)

\* C4: a verification result is safe to execute exactly when its drifted and
\* missing lists are both empty, and replacing its permission_errors by any
\* other list leaves the answer of is_safe_to_execute as it is.
C4_SafeIffNoDriftNoMissing ==
    /\ IsSafeToExecute(vresult) <=>
          (vresult.drifted = << >> /\ vresult.missing = << >>)
    /\ \A pe \in {<< >>, <<BasePath>>, Append(vresult.permission_errors, BasePath)} :
          IsSafeToExecute([vresult EXCEPT !.permission_errors = pe])
              = IsSafeToExecute(vresult)

\* C4 witness: verify returned a result with a permission warning and nothing
\* drifted or missing, and the result is safe to execute
C4_Witness ==
    /\ vpc = "Ok"
    /\ vresult.permission_errors # << >>
    /\ vresult.verified < vresult.total_entries
    /\ IsSafeToExecute(vresult)

----------------------------------------------------------------------------
(* Properties of run_execute *)

\* the run has acted on a plan entry, or has created the engine or the logger
RunHasActed ==
    \/ epc # "NoEngine"
    \/ logger # None
    \/ logfile # None
    \/ trace # << >>
    \/ started # {}
    \/ fs # fs0

\* C2: in run_execute without skip_verify and without dry_run, nothing is
\* deleted, moved to backup or recycled, and neither the execution engine nor
\* the transaction logger exists, unless verify has gone through the whole
\* plan and returned Ok with a result that has no drifted and no missing
\* entry; a returned result that is not safe leaves the run in front of the
\* gate or stopped by it, with no engine, no logger and an untouched tree.
C2_VerificationGate ==
    (rpc # "NoRun" /\ ~opts.skip_verify /\ ~opts.dry_run) =>
        /\ RunHasActed =>
              /\ vpc = "Ok"
              /\ vidx > Len(plan.entries)
              /\ vresult.total_entries = Len(plan.entries)
              /\ vresult.drifted = << >>
              /\ vresult.missing = << >>
        /\ (vpc = "Ok" /\ (vresult.drifted # << >> \/ vresult.missing # << >>)) =>
              /\ rpc \in {"Verifying", "ErrDrift"}
              /\ ~RunHasActed
        /\ vpc \in {"ErrWalkDir", "ErrTimestamp"} =>
              /\ rpc \in {"Verifying", "ErrVerify"}
              /\ ~RunHasActed

\* a run that verified its plan, executed it and wrote the log
C2_Witness ==
    /\ ~opts.skip_verify /\ ~opts.dry_run
    /\ rpc = "Ok"
    /\ vpc = "Ok"
    /\ fs # fs0
    /\ logfile # None
    /\ \E i \in 1..Len(trace) : trace[i].ev = "exec"

----------------------------------------------------------------------------
(* Properties of the detection engine *)

VcsDirs == {".git", ".hg", ".svn"}

\* a directory that directly contains a version-control metadata directory or
\* a package manifest
IsProjectRoot(f, p) ==
    /\ IsDir(f, p)
    /\ \/ \E v \in VcsDirs : IsDir(f, Join(p, <<v>>))
       \/ \E m \in Manifests : IsFile(f, Join(p, <<m>>))

HasBuildRule == \E i \in 1..Len(rules) : rules[i].name = "build_artifact"

\* a rule in front of the build-artifact rule flags the entry
EarlierRuleFlags(entry) ==
    \E i \in 1..Len(rules) :
        /\ ShouldFlag(rules[i], entry)
        /\ \A k \in 1..i : rules[k].name # "build_artifact"

FlaggedBy(entry, name) ==
    \E i \in 1..Len(results) :
        results[i].entry = entry /\ results[i].rule_name = name

\* C7: when analyze has returned, no flagged entry is a project root, whatever
\* its base name; and every directory entry that is named like build output,
\* is not itself a project root and lies beneath a project root has been
\* flagged by the build-artifact rule (when the engine has that rule and no
\* rule in front of it flagged the entry first).
C7_ProjectRootNeverFlagged ==
    dpc = "Done" =>
        /\ \A i \in 1..Len(results) : ~IsProjectRoot(fs, results[i].entry.path)
        /\ \A j \in 1..Len(entries) :
              ( /\ entries[j].entry_type = "Directory"
                /\ FileName(entries[j].path) # None
                /\ FileName(entries[j].path)[1] \in DefaultPatterns
                /\ ~IsProjectRoot(fs, entries[j].path)
                /\ \E q \in DOMAIN fs : /\ IsStrictDescendant(entries[j].path, q)
                                        /\ IsProjectRoot(fs, q)
                /\ HasBuildRule
                /\ ~EarlierRuleFlags(entries[j]) )
              => FlaggedBy(entries[j], "build_artifact")

\* analyze has flagged, as a build artifact, a directory named build that
\* holds a package manifest or a version-control directory
C7_Witness ==
    /\ dpc = "Done"
    /\ \E i \in 1..Len(results) :
          /\ results[i].rule_name = "build_artifact"
          /\ FileName(results[i].entry.path) = Some("build")
          /\ IsProjectRoot(fs, results[i].entry.path)

----------------------------------------------------------------------------
(* Properties of the plan generator *)

\* Path::components: a "." that is not the first component is dropped
RECURSIVE Components(_)
Components(p) ==
    IF Len(p) <= 1 THEN p
    ELSE IF p[Len(p)] = "." THEN Components(SubSeq(p, 1, Len(p) - 1))
         ELSE Append(Components(SubSeq(p, 1, Len(p) - 1)), p[Len(p)])

\* the place in the tree a plan entry names
PlanPath(i) == Components(Join(plan.base_path, plan.entries[i].path))

\* C6: at every point of generate, and in the plan it returns: when a plan
\* entry made from a directory has the action Delete, no entry of the plan
\* names a strict descendant of that directory, in whatever order the
\* detections were passed in.  (Every plan entry names the path of the
\* detection it was made from.)
C6_NoDescendantOfDeletedDir ==
    /\ Len(sources) = Len(plan.entries)
    /\ \A i \in 1..Len(sources) : PlanPath(i) = sources[i].entry.path
    /\ \A i \in 1..Len(sources) :
          (sources[i].entry.entry_type = "Directory" /\ plan.entries[i].action = "Delete")
              => \A j \in 1..Len(sources) :
                    ~IsStrictDescendant(PlanPath(j), PlanPath(i))

\* generate has returned a plan that deletes a directory, and a detection
\* beneath that directory was passed in ahead of the directory's own
C6_Witness ==
    /\ gpc = "Done"
    /\ \E i \in 1..Len(sources) :
          /\ sources[i].entry.entry_type = "Directory"
          /\ plan.entries[i].action = "Delete"
          /\ \E a, b \in 1..Len(detections) :
                /\ a < b
                /\ detections[b] = sources[i]
                /\ IsStrictDescendant(detections[a].entry.path, sources[i].entry.path)

----------------------------------------------------------------------------
(* Properties of the execution engine: failures and prompts *)

Terminated == epc \in {"Completed", "Aborted", "IoError", "ConfigError", "Panicked"}

\* the record of position k is the record of that Delete entry, and a failure
\* carries an error text
RecordsEntry(ops, k) ==
    /\ ops[k].path = FullPath(plan, EntryAt(k))
    /\ ops[k].status \in {"Success", "Failed"}
    /\ ops[k].status = "Failed" <=> ops[k].error # None

\* C11: in Batch mode without fail_fast, when execute is over it has returned
\* Ok with exactly one operation record per Delete entry of the plan, in plan
\* order, sequentially and in parallel; a failed operation is marked Failed
\* with an error text and does not keep the later entries from being processed.
C11_FailureNeverStopsRun ==
    (config.mode = "Batch" /\ ~config.fail_fast /\ Terminated) =>
        /\ epc = "Completed"
        /\ execResult # None
        /\ Len(execResult[1].operations) = NumToProcess
        /\ \A k \in 1..NumToProcess : RecordsEntry(execResult[1].operations, k)

\* a parallel Batch run without fail_fast that ended in the panic of
\* chunks(0), with Delete entries left unprocessed
C11_Witness ==
    /\ config.mode = "Batch" /\ ~config.fail_fast
    /\ config.parallel /\ config.batch_size = 0
    /\ NumToProcess > 0
    /\ epc = "Panicked"
    /\ execResult = None

Prompts == {i \in 1..Len(trace) : trace[i].ev = "prompt"}

Affirmative == {"y", "yes"}
AbortWords == {"a", "abort", "q", "quit"}

\* every change of the tree at or beneath p is the work of an executed entry
\* other than position k
ChangesAreOfOthers(p, k) ==
    \A q \in DOMAIN fs :
        (IsPrefix(p, q) /\ fs[q] # fs0[q]) =>
            \E j \in Executed \ {k} : MayChange(EntryAt(j), q)

\* C12: in Interactive mode, a prompt that read neither a consent nor an abort
\* word left exactly the record (Skip, Skipped, nothing freed, no error) at
\* its position, execute_single was not called for the entry, and whatever
\* changed at or beneath the entry's path was changed for another, executed
\* entry.  A prompt that read an abort word is the last thing that happened:
\* execute has returned UserAborted without a result, every other prompt and
\* every execute_single call was for an earlier position, the records are
\* those of the earlier positions, and every change of the tree belongs to an
\* executed earlier entry.
C12_SkipAndAbort ==
    config.mode = "Interactive" =>
        \A i \in Prompts :
            LET k == trace[i].pos
                line == trace[i].line
            IN  /\ line \notin (Affirmative \cup AbortWords \cup {ReadFailed}) =>
                      /\ Len(operations) >= k
                      /\ operations[k] = OperationResult(FullPath(plan, EntryAt(k)),
                                                         "Skip", "Skipped", None, None)
                      /\ k \notin Executed
                      /\ ChangesAreOfOthers(FullPath(plan, EntryAt(k)), k)
                /\ line \in AbortWords =>
                      /\ epc = "Aborted"
                      /\ execResult = None
                      /\ i = Len(trace)
                      /\ \A j \in 1..Len(trace) : j # i => trace[j].pos < k
                      /\ Len(operations) = k - 1
                      /\ ChangesAreOfOthers(<<"/">>, k)

\* the first entry was skipped on a line that is not understood, the second
\* prompt read an abort word, and the tree is as it was
C12_Witness ==
    /\ config.mode = "Interactive"
    /\ epc = "Aborted"
    /\ Len(trace) = 2
    /\ trace[1].line = "maybe"
    /\ trace[2].line \in AbortWords
    /\ Len(operations) = 1
    /\ operations[1].status = "Skipped"
    /\ Exists(fs, FullPath(plan, EntryAt(1)))
    /\ fs = fs0

----------------------------------------------------------------------------
(* Properties of the transaction log *)

RunExited ==
    rpc \in {"Ok", "ErrPlanFile", "ErrVerify", "ErrDrift", "ErrExecute",
             "ErrLogWrite", "ErrFailed", "Panicked"}

TerminalStatus == {"completed", "failed", "aborted"}

\* C13: a transaction log starts in_progress, and once run_execute is left, by
\* whatever path (a user abort and an execution error included), the log it
\* created has been finalized: it carries a terminal status (completed,
\* failed or aborted) and its completion mark; until it is finalized it is
\* in_progress and has no summary.
C13_LogFinalizedOnEveryExit ==
    logger # None =>
        /\ logger[1].status \in TerminalStatus \cup {"in_progress"}
        /\ logger[1].status = "in_progress" <=> ~logger[1].completed
        /\ logger[1].status = "in_progress" => logger[1].summary = None
        /\ RunExited => logger[1].status \in TerminalStatus

\* run_execute has returned the abort of the user as an error after an entry
\* was deleted, and the log is still in_progress, in memory only
C13_Witness ==
    /\ rpc = "ErrExecute"
    /\ epc = "Aborted"
    /\ fs # fs0
    /\ logger # None
    /\ logger[1].status = "in_progress"
    /\ logger[1].operations = << >>
    /\ logfile = None

\* C14: the log is written after every mutation: whenever the log in memory
\* holds operations, the log on disk exists and holds every one of them in
\* the same order, so stopping the process after the first logged operation
\* leaves a readable partial log; and as soon as an entry of the plan has been
\* acted on, a log is on disk.
C14_LogOnDiskAfterEveryMutation ==
    /\ (logger # None /\ logger[1].operations # << >>) =>
           /\ logfile # None
           /\ logfile[1].operations = logger[1].operations
    /\ (logger # None /\ fs # fs0) => logfile # None

\* the loop of run_execute has logged the first of two operations, the tree
\* has already changed, and nothing is on disk
C14_Witness ==
    /\ rpc = "Executing"
    /\ epc = "Completed"
    /\ fs # fs0
    /\ Len(execResult[1].operations) = 2
    /\ Len(logger[1].operations) = 1
    /\ logger[1].status = "in_progress"
    /\ logfile = None

\* the operations of a log are those of the result, one for one, in its order
LogsResult(log, result) ==
    /\ Len(log.operations) = Len(result.operations)
    /\ \A k \in 1..Len(result.operations) :
           /\ log.operations[k] = LoggedOperation(result.operations[k])
           /\ log.operations[k].path = FullPath(plan, EntryAt(k))

\* C15: a finalized log carries the completion mark and the summary of the
\* result, its status is completed exactly when no operation failed and failed
\* otherwise, it holds every operation of the result in the order of
\* execution, and when the write succeeds (run_execute goes on to the summary)
\* the file on disk is that finalized log.
C15_FinalizedLog ==
    (logger # None /\ logger[1].completed) =>
        LET log == logger[1]
            result == execResult[1]
            noFailure == \A k \in 1..Len(log.operations) :
                             log.operations[k].status # "Failed"
        IN  /\ log.summary = Some(result.summary)
            /\ log.status \in {"completed", "failed"}
            /\ log.status = "completed" <=> noFailure
            /\ LogsResult(log, result)
            /\ rpc \in {"Ok", "ErrFailed", "ErrLogWrite"}
            /\ rpc # "ErrLogWrite" <=> logfile = Some(log)
            /\ rpc = "Ok" <=> (logfile # None /\ noFailure)

\* a run of two entries, the first deleted and the second failed, has been
\* finalized as failed and written
C15_Witness ==
    /\ rpc = "ErrFailed"
    /\ logfile # None
    /\ logfile[1].completed
    /\ logfile[1].status = "failed"
    /\ Len(logfile[1].operations) = 2
    /\ logfile[1].operations[1].status = "Success"
    /\ logfile[1].operations[2].status = "Failed"
    /\ logfile[1].summary[1].failed = 1

----------------------------------------------------------------------------
(* Properties of the plan writer *)

NewText == Text(Serialize(plan), TRUE)

\* C16: at every point of a write the target holds its complete previous
\* content (or is still absent) or the complete new content; the temporary
\* file has been synced when it is renamed, so that nothing unsynced is left
\* after a successful write; and a successful write leaves the new content at
\* the target and no file at the temporary name next to it.
C16_TargetNeverPartial ==
    /\ files[target] \in {files0[target], NewText}
    /\ wrpc = "Ok" =>
          /\ files[target] = NewText
          /\ dirty = {}
          /\ TempPath(target) # target => files[TempPath(target)] = NoFile

\* the target is named plan.tmp and held a plan: the write has truncated it
\* in place and has not yet written the new text
C16_Witness ==
    /\ wrpc = "WriteTemp"
    /\ target = <<"plan", "tmp">>
    /\ TempPath(target) = target
    /\ files0[target] = Text(OldText, TRUE)
    /\ files[target] = Text(Serialize(plan), FALSE)

Invalid(p) ==
    \/ p.base_path = << >>
    \/ \E i \in 1..Len(p.entries) : p.entries[i].path = << >>

\* C17: a write of a plan with an empty base path or with an entry whose
\* path is empty ends in the validation error, and it ends there before any
\* I/O: the output directory is not created, no temporary file is written
\* and the target is unchanged, so the write never gets past its start.
C17_ValidationBeforeIo ==
    Invalid(plan) =>
        /\ wrpc \in {"Start", "ErrValidation"}
        /\ files = files0
        /\ dirty = {}

\* a plan with a base path whose second entry has an empty path was rejected,
\* with the output directory still missing
C17_Witness ==
    /\ wrpc = "ErrValidation"
    /\ plan.base_path # << >>
    /\ Len(plan.entries) = 2
    /\ plan.entries[1].path # << >>
    /\ plan.entries[2].path = << >>
    /\ files[OutDir] = NoFile
    /\ files = files0

\* C18: every entry of the plan being generated has a non-empty path that is
\* relative to the base path of the plan: it is never absolute, it is the
\* sentinel "." exactly when the detection's path is the base path, and
\* otherwise the base path joined with it is the detection's path.
C18_EntriesRelativeToBase ==
    gpc # "NoGenerator" =>
        \A i \in 1..Len(plan.entries) :
            LET rel == plan.entries[i].path
                abs == sources[i].entry.path
            IN  /\ rel # << >>
                /\ ~IsAbsolute(rel)
                /\ rel = <<".">> <=> abs = plan.base_path
                /\ rel # <<".">> => Join(plan.base_path, rel) = abs

\* generate has returned a plan with an entry for a directory outside the
\* base directory, under its absolute path and marked Delete
C18_Witness ==
    /\ gpc = "Done"
    /\ \E i \in 1..Len(plan.entries) :
         /\ plan.entries[i].path = <<"/", "s", "build">>
         /\ plan.entries[i].action = "Delete"
         /\ ~IsPrefix(plan.base_path, sources[i].entry.path)

\* the protection policy of analyze
Excluded(f, entry) ==
    \/ IsProtectedSource(f, entry)
    \/ IsRepoRoot(f, entry)
    \/ IsProtectedManifest(f, entry)

Matching(entry) == {i \in 1..Len(rules) : ShouldFlag(rules[i], entry)}

Lowest(S) == CHOOSE i \in S : \A j \in S : i <= j

\* what analyze owes for the first n entries: nothing for an excluded entry
\* and for an entry no rule matches, and otherwise one detection, by the
\* lowest-indexed matching rule
RECURSIVE Owed(_)
Owed(n) ==
    IF n = 0 THEN << >>
    ELSE LET entry == entries[n]
             rule == rules[Lowest(Matching(entry))]
         IN  IF Excluded(fs, entry) \/ Matching(entry) = {}
             THEN Owed(n - 1)
             ELSE Append(Owed(n - 1),
                         [entry |-> entry, rule_name |-> rule.name,
                          reason |-> rule.reason])

\* C19: at every point of analyze, the detections emitted so far are, in the
\* order of the entries, exactly one detection for every entry gone through
\* that is not excluded by the protection policy and is matched by at least
\* one rule, carrying the name and the reason of the lowest-indexed rule that
\* matches it, and nothing for the other entries.
C19_FirstMatchingRuleWins ==
    dpc \in {"Loop", "Done"} => results = Owed(didx - 1)

\* analyze has returned one detection for a build directory that both rules
\* match, by the size rule standing first, and none for an entry below the
\* threshold that no rule matches
C19_Witness ==
    /\ dpc = "Done"
    /\ Len(rules) = 2
    /\ rules[1].name = "large_file"
    /\ Len(entries) = 2
    /\ Matching(entries[1]) = {1, 2}
    /\ ~Excluded(fs, entries[1])
    /\ Matching(entries[2]) = {}
    /\ ~Excluded(fs, entries[2])
    /\ Len(results) = 1
    /\ results[1].entry = entries[1]
    /\ results[1].rule_name = "large_file"

\* the entries the protection policy names: a source-code file by its
\* extension, a source or configuration directory by its name, and a
\* directory that holds a project-root marker
IsSourceFile(entry) ==
    /\ entry.entry_type = "File"
    /\ Extension(entry.path) # None
    /\ ToAsciiLowercase(Extension(entry.path)[1]) \in SourceExts

IsSourceDir(entry) ==
    /\ entry.entry_type = "Directory"
    /\ FileName(entry.path) # None
    /\ ToAsciiLowercase(FileName(entry.path)[1]) \in SourceDirs

HoldsMarker(f, entry) ==
    /\ entry.entry_type = "Directory"
    /\ \E c \in RepoRootCandidates \cup Manifests : Exists(f, Join(entry.path, <<c>>))

\* C20: at every point of analyze and whatever the rules are, a rule that
\* matches every entry included, no detection emitted is for a source-code
\* file, for a source or configuration directory, or for a directory that
\* holds a project-root marker.
C20_ProtectedNeverEmitted ==
    dpc \in {"Loop", "Done"} =>
        \A i \in 1..Len(results) :
            /\ ~IsSourceFile(results[i].entry)
            /\ ~IsSourceDir(results[i].entry)
            /\ ~HoldsMarker(fs, results[i].entry)

\* under the rule that matches every entry, analyze has returned a detection
\* for the directory build although it holds .git
C20_Witness ==
    /\ dpc = "Done"
    /\ rules = <<SizeThresholdRule(0)>>
    /\ Exists(fs, Join(DetRoot, <<"build", ".git">>))
    /\ \E i \in 1..Len(results) :
         /\ results[i].entry.path = Join(DetRoot, <<"build">>)
         /\ results[i].entry.entry_type = "Directory"
         /\ results[i].rule_name = "large_file"

----------------------------------------------------------------------------
(* Properties of the plan generator: dispositions *)

\* a project-root-style path: the directory above a version-control
\* directory or a package manifest
HoldsRootMarker(f, p) ==
    \E c \in {".git", ".hg", ".svn", "package.json", "Cargo.toml", "pyproject.toml"} :
        Exists(f, Join(p, <<c>>))

----------------------------------------------------------------------------
(* Properties of the verification engine: the buckets of the result *)

\* the number of plan entries verify has gone through: all below vidx, and
\* the entry at vidx when fail-fast returned on it
Examined ==
    IF vpc = "Ok" /\ vidx <= Len(plan.entries) THEN vidx
    ELSE IF vidx = 0 THEN 0 ELSE vidx - 1

ExaminedPaths(keep) ==
    {FullPath(plan, plan.entries[i]) :
        i \in {j \in 1..Examined : (plan.entries[j].action = "Keep") = keep}}

\* C23: at every point of verify and when it has returned, with or without
\* fail-fast, every entry gone through is counted in exactly one of verified,
\* drifted, missing and permission_errors: the four add up to the number of
\* entries gone through, so verified + |drifted| + |missing| stays within
\* total_entries and an entry recorded in permission_errors is counted nowhere
\* else; the recorded paths are paths of examined entries.
C23_BucketsDisjoint ==
    vpc \in {"Loop", "Ok"} =>
        /\ vresult.total_entries = Len(plan.entries)
        /\ vresult.verified + Len(vresult.drifted) + Len(vresult.missing)
              + Len(vresult.permission_errors) = Examined
        /\ vresult.verified + Len(vresult.drifted) + Len(vresult.missing)
              <= vresult.total_entries
        /\ \A i \in 1..Len(vresult.permission_errors) :
              vresult.permission_errors[i] \in ExaminedPaths(FALSE)
        /\ \A i \in 1..Len(vresult.missing) :
              vresult.missing[i] \in ExaminedPaths(FALSE)
        /\ \A i \in 1..Len(vresult.drifted) :
              vresult.drifted[i].path \in ExaminedPaths(FALSE)

\* verify has returned on a plan of two entries, one with unreadable
\* metadata and one verified
C23_Witness ==
    /\ vpc = "Ok"
    /\ vprev = None
    /\ vresult.total_entries = 2
    /\ Len(vresult.permission_errors) = 1
    /\ vresult.verified = 1
    /\ vresult.drifted = << >>
    /\ vresult.missing = << >>

\* positions of the examined entries that are not Keep and whose path does
\* not exist
MissingPositions ==
    {i \in 1..Examined :
        plan.entries[i].action # "Keep" /\ ~Exists(fs, FullPath(plan, plan.entries[i]))}

\* C24: at every point of verify and when it has returned, the path of every
\* examined non-Keep entry that does not exist is in missing, once for each
\* such entry, and is in no drift record, and the result is then not safe to
\* execute; nothing else is in missing.
C24_MissingNotDrifted ==
    vpc \in {"Loop", "Ok"} =>
        /\ Len(vresult.missing) = Cardinality(MissingPositions)
        /\ \A i \in MissingPositions :
              LET p == FullPath(plan, plan.entries[i])
              IN  /\ \E k \in 1..Len(vresult.missing) : vresult.missing[k] = p
                  /\ \A k \in 1..Len(vresult.drifted) : vresult.drifted[k].path # p
                  /\ ~IsSafeToExecute(vresult)
        /\ \A k \in 1..Len(vresult.missing) : ~Exists(fs, vresult.missing[k])

\* verify has returned without fail-fast on a plan whose first entry is gone
\* from the disk and whose second entry passed: one missing path, no drift,
\* not safe
C24_Witness ==
    /\ vpc = "Ok"
    /\ ~vcfg.fail_fast
    /\ Len(plan.entries) = 2
    /\ MissingPositions = {1}
    /\ vresult.missing = <<FullPath(plan, plan.entries[1])>>
    /\ vresult.drifted = << >>
    /\ vresult.verified = 1
    /\ ~IsSafeToExecute(vresult)

\* the size verify compares with: the length of a file, the sum of the file
\* sizes beneath a directory
CurrentSize(p) ==
    IF IsDir(fs, p) THEN CalculateDirSize(fs, p) ELSE Some(fs[p].size)

\* positions of the examined entries that are not Keep, exist, and have a
\* size other than the recorded one
SizeChangedPositions ==
    {i \in 1..Examined :
        LET p == FullPath(plan, plan.entries[i])
        IN  /\ plan.entries[i].action # "Keep"
            /\ Exists(fs, p)
            /\ CurrentSize(p) # None
            /\ CurrentSize(p)[1] # plan.entries[i].size}

SizeRecords(i) ==
    {k \in 1..Len(vresult.drifted) :
        /\ vresult.drifted[k].drift_type = "SizeMismatch"
        /\ vresult.drifted[k].path = FullPath(plan, plan.entries[i])
        /\ vresult.drifted[k].expected = plan.entries[i].size
        /\ vresult.drifted[k].actual = CurrentSize(FullPath(plan, plan.entries[i]))[1]}

\* C25: with size checking enabled and the metadata of every entry readable,
\* at every point of verify and when it has returned, every examined non-Keep
\* entry that exists with a size other than the recorded one has its drift
\* record of kind SizeMismatch with the recorded and the current size, there
\* is exactly one drift record for each such entry and it is the only record
\* on its path even when the modification time differs too, the entry is not
\* counted as verified, and the result is not safe to execute.
C25_SizeMismatchIsDrift ==
    (vpc \in {"Loop", "Ok"} /\ vcfg.check_size /\ vresult.permission_errors = << >>) =>
        /\ \A i \in SizeChangedPositions : SizeRecords(i) # {}
        /\ Cardinality({k \in 1..Len(vresult.drifted) :
                            vresult.drifted[k].drift_type = "SizeMismatch"})
              = Cardinality(SizeChangedPositions)
        /\ \A i \in SizeChangedPositions :
              \A k \in 1..Len(vresult.drifted) :
                  vresult.drifted[k].path = FullPath(plan, plan.entries[i])
                      => vresult.drifted[k].drift_type = "SizeMismatch"
                           \/ \E j \in 1..Examined \ SizeChangedPositions :
                                 plan.entries[j].path = plan.entries[i].path
        /\ vresult.verified <= Examined - Cardinality(SizeChangedPositions)
        /\ SizeChangedPositions # {} => ~IsSafeToExecute(vresult)

\* verify, checking sizes and times, has returned on a plan of one entry
\* whose file has another size and whose time is off as well: one drift
\* record, of kind SizeMismatch, nothing verified, not safe
C25_Witness ==
    /\ vpc = "Ok"
    /\ vcfg.check_size
    /\ vcfg.check_mtime
    /\ Len(plan.entries) = 1
    /\ SizeChangedPositions = {1}
    /\ ParseRfc3339(plan.entries[1].modified) # None
    /\ DiffSecs(fs[FullPath(plan, plan.entries[1])].mtime,
                ParseRfc3339(plan.entries[1].modified)[1]) > MtimeToleranceSecs
    /\ Len(vresult.drifted) = 1
    /\ vresult.drifted[1].drift_type = "SizeMismatch"
    /\ vresult.verified = 0
    /\ ~IsSafeToExecute(vresult)

\* C26: verify never ends in an error return: whatever the plan, a
\* hand-edited one included, and whatever the filesystem, it is still at work
\* or has returned a result value.
C26_VerifyNeverFails ==
    vpc \in {"Idle", "Loop", "Ok"}

\* verify, checking modification times, has returned the InvalidTimestamp
\* error on a plan whose second entry exists on the disk and carries a
\* timestamp that is not RFC 3339; the result built so far is lost
C26_Witness ==
    /\ vpc = "ErrTimestamp"
    /\ vcfg.check_mtime
    /\ vidx = 2
    /\ Exists(fs, FullPath(plan, plan.entries[2]))
    /\ ParseRfc3339(plan.entries[2].modified) = None
    /\ vresult.verified = 1

\* the plan matches the filesystem: verify finds no problem with any entry
Untouched ==
    /\ vprev # None
    /\ vprev[1].verified = vprev[1].total_entries

\* the second result: when verify has returned for the second time in a row on
\* the same plan and filesystem, it returns the result it returned the first
\* time, given that no metadata call failed in either run; in particular, for
\* a plan the first call found untouched, both results count every entry as
\* verified and have empty drifted and missing lists.
C27_SecondResultSame ==
    (vpc = "Ok" /\ vprev # None /\ vprev[1].permission_errors = << >>
        /\ vresult.permission_errors = << >>) =>
        /\ vresult = vprev[1]
        /\ Untouched =>
              /\ vresult.verified = Len(plan.entries)
              /\ vresult.drifted = << >> /\ vprev[1].drifted = << >>
              /\ vresult.missing = << >> /\ vprev[1].missing = << >>

KeepPositions == {i \in 1..Examined : plan.entries[i].action = "Keep"}

\* C28: at every point of verify and when it has returned, every Keep entry
\* gone through is counted in verified and in nothing else: verified holds at
\* least the Keep entries, missing, drifted and permission_errors together
\* hold at most the other entries, and a plan of Keep entries alone is all
\* verified and safe whether or not its paths exist; and no error return of
\* verify comes from a Keep entry, since such an entry is not inspected.
C28_KeepIsVerifiedUninspected ==
    /\ vpc \in {"Loop", "Ok"} =>
          /\ vresult.verified >= Cardinality(KeepPositions)
          /\ Len(vresult.missing) + Len(vresult.drifted)
                + Len(vresult.permission_errors)
                <= Examined - Cardinality(KeepPositions)
          /\ KeepPositions = 1..Examined =>
                /\ vresult.verified = Examined
                /\ IsSafeToExecute(vresult)
    /\ vpc \in {"ErrWalkDir", "ErrTimestamp"} => plan.entries[vidx].action # "Keep"

\* verify has returned on a plan of one Keep entry whose path is gone from
\* the disk and whose size and time are stale: verified, nothing missing
C28_Witness ==
    /\ vpc = "Ok"
    /\ vcfg.check_size
    /\ vcfg.check_mtime
    /\ Len(plan.entries) = 1
    /\ plan.entries[1].action = "Keep"
    /\ ~Exists(fs, FullPath(plan, plan.entries[1]))
    /\ vresult.verified = 1
    /\ vresult.missing = << >>
    /\ vresult.drifted = << >>
    /\ vresult.permission_errors = << >>

----------------------------------------------------------------------------
(* Properties of the scanners *)

\* what the comparison of two scan results looks at
Observed(e) == [path |-> e.path, entry_type |-> e.entry_type, size |-> e.size]

\* the entries FileScanner::scan has pushed, as a set
SeqEntries == {Observed(sentries[i]) : i \in 1..Len(sentries)}

\* the entries phase 2 of ParallelScanner::scan has produced, as a set
ParEntries == {Observed(pout[i][1]) : i \in {j \in DOMAIN pout : pout[j] # None}}

\* both scanners have returned Ok on a tree that nobody changed
BothScanned == spc = "Ok" /\ ppc = "Ok" /\ fs = fs0

\* C29: when the single-threaded scanner and the parallel scanner have both
\* returned on the same unchanged tree under the same configuration, they
\* hold the same set of entries: same paths, types and sizes.
C29_SameEntries == BothScanned => SeqEntries = ParEntries

\* both have returned under skip_hidden: the file in the hidden directory is
\* among the entries of the single-threaded scanner and not among those of
\* the parallel one
C29_Witness ==
    /\ BothScanned
    /\ scfg.skip_hidden
    /\ scfg.max_depth = None
    /\ \E e \in SeqEntries : e.path = Join(ScanRoot, <<".h", "c">>)
    /\ \A e \in ParEntries : e.path # Join(ScanRoot, <<".h", "c">>)

\* the paths the walker of phase 1 yields on a tree that does not change:
\* within the depth limit, beneath no directory that cannot be listed and,
\* under skip_hidden, with no hidden component beneath the root
Collectable(f, cfg) ==
    {p \in Subtree(f, ScanRoot) :
        /\ cfg.max_depth = None \/ Len(p) - Len(ScanRoot) <= cfg.max_depth[1]
        /\ \A d \in DOMAIN f :
              (IsPrefix(ScanRoot, d) /\ IsStrictDescendant(p, d)) => ~f[d].locked
        /\ cfg.skip_hidden =>
              \A k \in (Len(ScanRoot) + 1)..Len(p) : ~StartsWithDot(p[k])}

\* positions of paths whose processing failed
Omitted == {i \in DOMAIN pout : i \notin pending /\ pout[i] = None}

\* the parallel scanner never ends on the failure of an entry: when it has
\* returned, each collected path is either an entry of the result or an error
\* of the list, and on an unchanged tree the collected paths are all the
\* paths the walk can reach
ParallelRecovers ==
    ppc = "Ok" =>
        /\ Len(errors) = Cardinality(Omitted)
        /\ \A i \in DOMAIN pout :
              pout[i] # None => pout[i][1].path = paths[i]
        /\ \A i \in Omitted :
              ~Exists(fs, paths[i]) \/ (IsDir(fs, paths[i]) /\ fs[paths[i]].locked)
        /\ fs = fs0 =>
              {paths[i] : i \in 1..Len(paths)} = Collectable(fs, scfg)

\* C30: the failure of one entry never ends a scan: the single-threaded
\* scanner never returns the error of an entry of the walk, and the parallel
\* scanner returns every other entry it can reach, leaves the failing entry
\* out and records its error.
C30_EntryFailureNeverAborts ==
    /\ spc # "ErrWalk"
    /\ ParallelRecovers

\* on the tree whose directory d cannot be listed, with hidden entries kept:
\* the single-threaded scanner has returned an error, the parallel scanner
\* has returned the four other entries and recorded one error
C30_Witness ==
    /\ fs = fs0
    /\ IsDir(fs, Join(ScanRoot, <<"d">>))
    /\ fs[Join(ScanRoot, <<"d">>)].locked
    /\ ~scfg.skip_hidden
    /\ scfg.max_depth = None
    /\ spc = "ErrWalk"
    /\ ppc = "Ok"
    /\ Cardinality(ParEntries) = 4
    /\ Len(errors) = 1

\* C31: a scan of a root that does not exist never returns Ok: neither the
\* single-threaded scanner nor the parallel scanner ends with an entry list.
C31_MissingRootFails ==
    ~Exists(fs0, ScanRoot) => (spc # "Ok" /\ ppc # "Ok")

\* the root does not exist: FileScanner::scan has returned PathNotFound, and
\* ParallelScanner::scan has returned Ok with no entry and no recorded error
C31_Witness ==
    /\ ~Exists(fs0, ScanRoot)
    /\ fs = fs0
    /\ spc = "ErrPathNotFound"
    /\ ppc = "Ok"
    /\ paths = << >>
    /\ ParEntries = {}
    /\ errors = << >>

----------------------------------------------------------------------------
(* Properties of the execution engine: the action of execute_single *)

\* this step ran execute_single, on the position Acted of entries_to_process
HasActed == trace' # trace /\ trace'[Len(trace')].ev = "exec"

ActedEntry == EntriesToProcess(plan)[trace'[Len(trace')].pos]

\* the OperationResult that execute_single returned in this step
ActedOp ==
    IF config.parallel
    THEN wres'[trace'[Len(trace')].pos]
    ELSE operations'[Len(operations')]

\* the nodes of the backup directory
InBackup(f) == Subtree(f, BackupDir)

\* a step that ran execute_single did exactly what the configuration asks
\* for, by priority
ActionByPriority ==
    HasActed =>
        LET entry == ActedEntry
            p == FullPath(plan, entry)
            dest == Join(BackupDir, entry.path)
            op == ActedOp
        IN  /\ op.path = p
            /\ IF config.mode = "DryRun"
               THEN /\ op.action = "Delete"
                    /\ op.status = "DryRun"
                    /\ fs' = fs
               ELSE IF config.use_recycle_bin
               THEN /\ op.action = "MoveToRecycleBin"
                    /\ op.status \in {"Success", "Failed"}
                    /\ op.status = "Success" => fs' = RemoveTree(fs, p)
                    /\ op.status = "Failed" => fs' = fs
               ELSE IF config.backup_dir # None
               THEN /\ op.action = "MoveToBackup"
                    /\ op.status \in {"Success", "Failed"}
                    /\ op.status = "Success" =>
                          /\ Exists(fs, p)
                          /\ ~Exists(fs', p)
                          /\ IsDir(fs', Parent(dest))
                          /\ \A q \in Subtree(fs, p) :
                                fs'[dest \o SubSeq(q, Len(p) + 1, Len(q))] = fs[q]
                          /\ \A q \in DOMAIN fs :
                                (~IsPrefix(p, q) /\ ~IsPrefix(q, dest) /\ ~IsPrefix(dest, q))
                                    => fs'[q] = fs[q]
                    /\ op.status = "Failed" =>
                          \A q \in DOMAIN fs : IsPrefix(BasePath, q) => fs'[q] = fs[q]
               ELSE /\ op.action = "Delete"
                    /\ op.status \in {"Success", "Failed"}
                    /\ op.status = "Success" =>
                          /\ Exists(fs, p)
                          /\ fs' = RemoveTree(fs, p)
                    /\ InBackup(fs') = InBackup(fs)

\* C32: every step in which execute_single handles a Delete entry takes the
\* one action the configuration selects by priority: a dry run reports and
\* leaves the filesystem alone; else the recycle bin takes the entry if it is
\* configured; else the entry is moved to backup_dir joined with its relative
\* path, parents created and the original path gone; else it is deleted,
\* a directory with all beneath it.
C32_ActionByPriority == [][ActionByPriority]_vars

\* with both the recycle bin and a backup directory configured, the directory
\* a went to the recycle bin: it is gone and the backup directory is empty
C32_Witness ==
    /\ config.mode = "Batch"
    /\ config.use_recycle_bin
    /\ config.backup_dir # None
    /\ Len(operations) = 1
    /\ operations[1].action = "MoveToRecycleBin"
    /\ operations[1].status = "Success"
    /\ operations[1].path = Join(BasePath, <<"a">>)
    /\ IsDir(fs0, Join(BasePath, <<"a">>))
    /\ ~Exists(fs, Join(BasePath, <<"a">>))
    /\ ~Exists(fs, Join(BasePath, <<"a", "x">>))
    /\ InBackup(fs) = {BackupDir}

----------------------------------------------------------------------------
(* Properties of the execution engine: the summary *)

\* positions of a list of operations with one of the statuses
WithStatus(ops, S) == {i \in 1..Len(ops) : ops[i].status \in S}

\* the bytes of the operations at the positions, those that carry a size
RECURSIVE FreedAt(_, _)
FreedAt(ops, I) ==
    IF I = {} THEN 0
    ELSE LET i == CHOOSE i \in I : TRUE
         IN  (IF ops[i].size_freed = None THEN 0 ELSE ops[i].size_freed[1])
                + FreedAt(ops, I \ {i})

\* C33: the summary of a returned ExecutionResult is a reduction of its
\* operation list: total_operations is the length of the list, successful
\* counts Success and DryRun, failed counts Failed, skipped counts Skipped,
\* the three add up to the total, and space_freed is the sum of the
\* size_freed values that are present.
C33_SummaryIsReduction ==
    execResult # None =>
        LET ops == execResult[1].operations
            summary == execResult[1].summary
        IN  /\ summary.total_operations = Len(ops)
            /\ summary.successful = Cardinality(WithStatus(ops, {"Success", "DryRun"}))
            /\ summary.failed = Cardinality(WithStatus(ops, {"Failed"}))
            /\ summary.skipped = Cardinality(WithStatus(ops, {"Skipped"}))
            /\ summary.successful + summary.failed + summary.skipped
                  = summary.total_operations
            /\ summary.space_freed = FreedAt(ops, 1..Len(ops))

\* execute has returned two operations, one of them a dry run or a success
\* and the other failed or skipped: the summary counts one of each and the
\* bytes of the first
C33_Witness ==
    /\ execResult # None
    /\ Len(execResult[1].operations) = 2
    /\ \E i, j \in 1..2 :
          /\ execResult[1].operations[i].status \in {"Success", "DryRun"}
          /\ execResult[1].operations[j].status \in {"Failed", "Skipped"}
          /\ execResult[1].operations[i].size_freed # None
          /\ execResult[1].operations[j].size_freed = None
    /\ execResult[1].summary.successful = 1
    /\ execResult[1].summary.failed + execResult[1].summary.skipped = 1
    /\ execResult[1].summary.space_freed = 1

----------------------------------------------------------------------------
(* Properties of the detection engine: determinism *)

\* r is e with some of its elements left out
RECURSIVE IsSubsequence(_, _)
IsSubsequence(r, e) ==
    IF r = << >> THEN TRUE
    ELSE IF e = << >> THEN FALSE
    ELSE IF Head(r) = Head(e) THEN IsSubsequence(Tail(r), Tail(e))
    ELSE IsSubsequence(r, Tail(e))

FlaggedEntries == [i \in 1..Len(results) |-> results[i].entry]

\* C34: a second call of analyze with the same entries, the same rules and
\* the same context returns the list the first call returned, whatever
\* happened in between, and the list of each call is in the order of the
\* input entries.
C34_SameListOnEveryCall ==
    /\ dpc \in {"Loop", "Done"} => IsSubsequence(FlaggedEntries, entries)
    /\ (dpc = "Done" /\ dprev # None) => results = dprev[1]

\* the entry of main.rs was analyzed twice under a rule it matches: the
\* first call, with the file on the disk, returned nothing; the second call,
\* after the file was removed, returned a detection of it
C34_Witness ==
    /\ dpc = "Done"
    /\ dprev # None
    /\ Len(entries) = 1
    /\ entries[1].path = <<"/", "r", "main.rs">>
    /\ IsFile(fs0, entries[1].path)
    /\ ~Exists(fs, entries[1].path)
    /\ dprev[1] = << >>
    /\ Len(results) = 1
    /\ results[1].entry = entries[1]

----------------------------------------------------------------------------
(* Properties of the execution engine: the workers of a batch *)

\* the path the worker at position k acts on
WorkerPath(k) == FullPath(plan, EntriesToProcess(plan)[k])

\* every entry to process is handed out at most once: the operations
\* collected so far are those of the first entries, one each, in order
HandedOutOnce ==
    /\ Len(operations) <= NumToProcess
    /\ \A i \in 1..Len(operations) : operations[i].path = WorkerPath(i)
    /\ \A k \in DOMAIN wstate : k > Len(operations)

\* C35: in a parallel execution no entry is handed to more than one worker,
\* so each Delete entry has at most one operation in the result, and the
\* workers running at the same time act on paths of which none is equal to
\* or an ancestor of another.
C35_WorkersDisjoint ==
    (config.parallel /\ epc \in {"ParLoop", "ParRun", "Completed"}) =>
        /\ HandedOutOnce
        /\ \A k1, k2 \in Running :
              k1 # k2 => ~IsPrefix(WorkerPath(k1), WorkerPath(k2))

\* two workers of one batch are running, one on the directory a and one on
\* the file x inside it
C35_Witness ==
    /\ config.parallel
    /\ epc = "ParRun"
    /\ config.mode = "Batch"
    /\ Running = {1, 2}
    /\ WorkerPath(1) = Join(BasePath, <<"a">>)
    /\ WorkerPath(2) = Join(BasePath, <<"a", "x">>)
    /\ IsDir(fs, WorkerPath(1))
    /\ IsFile(fs, WorkerPath(2))

----------------------------------------------------------------------------
(* Properties of the transaction log: the recorded configuration *)

\* the name a mode has in the log
ModeName(mode) ==
    CASE mode = "DryRun" -> "dry_run"
      [] mode = "Interactive" -> "interactive"
      [] OTHER -> "batch"

\* C36: the mode and the options of the transaction log are those of the
\* ExecutionConfig the engine runs with: the logged mode names the mode of
\* the engine, and the logged backup directory, recycle-bin flag and
\* fail-fast flag are the merged values of the command line and the
\* configuration file.
C36_LogRecordsConfigInForce ==
    logger # None =>
        /\ logger[1].mode = ModeName(config.mode)
        /\ logger[1].options.backup_dir = config.backup_dir
        /\ logger[1].options.use_recycle_bin = config.use_recycle_bin
        /\ logger[1].options.fail_fast = config.fail_fast

\* the log on the disk of a run without flags under a configuration file that
\* sets a backup directory: it holds a successful MoveToBackup operation and
\* records no backup directory
C36_Witness ==
    /\ rpc = "Ok"
    /\ logfile # None
    /\ opts = NoFlags
    /\ config.backup_dir = Some(BackupDir)
    /\ logfile[1].options.backup_dir = None
    /\ Len(logfile[1].operations) = 1
    /\ logfile[1].operations[1].action = "MoveToBackup"
    /\ logfile[1].operations[1].status = "Success"

----------------------------------------------------------------------------
(* Properties of the detection engine: the default rule order *)

\* the other of the two default engines
OtherDefault == IF rules = DetectionEngineNew THEN RunScanEngine ELSE DetectionEngineNew

\* C37: the two default engines choose the same rule for every entry: what
\* analyze emits under the rules of DetectionEngine::new or of run_scan
\* carries, for each entry, the rule name the other of the two engines
\* gives that entry.
C37_SameDefaultWinner ==
    (dpc \in {"Loop", "Done"} /\ rules \in {DetectionEngineNew, RunScanEngine}) =>
        \A i \in 1..Len(results) :
            LET other == FirstMatch(OtherDefault, 1, fs, results[i].entry)
            IN  /\ other # None
                /\ other[1].rule_name = results[i].rule_name

\* under the rules of DetectionEngine::new the directory build, of the size
\* of the threshold, was emitted as large_file; the engine of run_scan gives
\* it build_artifact
C37_Witness ==
    /\ dpc = "Done"
    /\ rules = DetectionEngineNew
    /\ Len(results) = 1
    /\ results[1].entry.path = Join(DetRoot, <<"build">>)
    /\ results[1].entry.entry_type = "Directory"
    /\ results[1].entry.size >= DefaultThresholdBytes
    /\ results[1].rule_name = "large_file"
    /\ FirstMatch(RunScanEngine, 1, fs, results[1].entry)
          = Some(DetectionResult(results[1].entry, BuildArtifactRule))

----------------------------------------------------------------------------
(* The modification-time check of verify *)

\* the entry verify is about to examine, and its path
MtimeEntry == plan.entries[vidx]

MtimePath == FullPath(plan, MtimeEntry)

\* the size verify computes for the examined path
MtimeSized ==
    IF IsDir(fs, MtimePath) THEN CalculateDirSize(fs, MtimePath)
    ELSE Some(fs[MtimePath].size)

\* the examined entry has come through the size check: it is not a Keep
\* entry, its path exists, and the size check is off or finds the recorded
\* size
PassedSizeCheck ==
    /\ vpc = "Loop"
    /\ vidx <= Len(plan.entries)
    /\ MtimeEntry.action # "Keep"
    /\ Exists(fs, MtimePath)
    /\ ~vcfg.check_size \/ (MtimeSized # None /\ MtimeSized[1] = MtimeEntry.size)

\* the current and the recorded time are three seconds or more apart, in
\* either direction: more than 2 whole seconds
BeyondBand ==
    LET cur == fs[MtimePath].mtime
        rec == MtimeEntry.modified.text
    IN  \/ cur - rec >= (MtimeToleranceSecs + 1) * TicksPerSec
        \/ rec - cur >= (MtimeToleranceSecs + 1) * TicksPerSec

\* a step of verify that reads the metadata of such an entry, whose
\* recorded time parses whenever it is looked at
MtimeStep ==
    /\ PassedSizeCheck
    /\ vcfg.check_mtime => MtimeEntry.modified.valid
    /\ vresult'.permission_errors = vresult.permission_errors
    /\ vresult' # vresult

MtimeOutcome ==
    MtimeStep =>
        IF vcfg.check_mtime /\ BeyondBand
        THEN /\ vresult'.verified = vresult.verified
             /\ Len(vresult'.drifted) = Len(vresult.drifted) + 1
             /\ SubSeq(vresult'.drifted, 1, Len(vresult.drifted)) = vresult.drifted
             /\ LET dd == vresult'.drifted[Len(vresult'.drifted)]
                IN  /\ dd.drift_type = "ModificationTimeMismatch"
                    /\ dd.path = MtimePath
        ELSE /\ vresult'.verified = vresult.verified + 1
             /\ vresult'.drifted = vresult.drifted

\* C38: with the modification-time check enabled, an entry that passed the
\* size check is recorded as ModificationTimeMismatch exactly when its current
\* and its recorded time lie more than 2 whole seconds apart, in either
\* direction; inside the band it is counted as verified, and with the check
\* disabled it is counted as verified whatever the times are.
C38_MtimeToleranceBand == [][MtimeOutcome]_vars

\* verify, checking sizes and times, has returned on a plan of two entries
\* for the same unchanged file: the one recorded two and a half seconds
\* ahead of the file is verified, the one recorded three seconds ahead is
\* the only drift, of the modification-time kind
C38_Witness ==
    /\ vpc = "Ok"
    /\ vprev = None
    /\ vcfg.check_mtime
    /\ vcfg.check_size
    /\ ~vcfg.fail_fast
    /\ Len(plan.entries) = 2
    /\ plan.entries[1].modified = Rfc3339(T0 + 5)
    /\ plan.entries[2].modified = Rfc3339(T0 + 6)
    /\ \A i \in 1..2 : /\ plan.entries[i].action # "Keep"
                       /\ IsFile(fs, FullPath(plan, plan.entries[i]))
                       /\ fs[FullPath(plan, plan.entries[i])].mtime = T0
                       /\ fs[FullPath(plan, plan.entries[i])].size = plan.entries[i].size
    /\ vresult.verified = 1
    /\ Len(vresult.drifted) = 1
    /\ vresult.drifted[1].drift_type = "ModificationTimeMismatch"
    /\ vresult.permission_errors = << >>

----------------------------------------------------------------------------
(* Where execute acts *)

\* the nodes that are not as they were when execute was called
ChangedNodes == {q \in DOMAIN fs : fs[q] # fs0[q]}

\* the operations that report a deletion or a move as done
DoneOperations ==
    {i \in 1..Len(operations) : operations[i].status = "Success"}

\* C39: every path execute deletes, moves to backup or recycles lies at or
\* beneath the base path of the plan, for a hand-edited plan as well, and
\* every backup destination lies beneath the backup directory.
C39_StaysBeneathBasePath ==
    /\ \A q \in ChangedNodes :
          IsPrefix(plan.base_path, q) \/ IsStrictDescendant(q, BackupDir)
    /\ \A i \in DoneOperations :
          /\ IsPrefix(plan.base_path, operations[i].path)
          /\ operations[i].action = "MoveToBackup" =>
                \A k \in DOMAIN plan.entries :
                    FullPath(plan, plan.entries[k]) = operations[i].path
                        => IsStrictDescendant(Join(BackupDir, plan.entries[k].path), BackupDir)

\* execute has returned on a hand-edited plan whose entry names the absolute
\* path of a file outside the base path: the operation on that path is
\* reported as done and the file is gone
C39_Witness ==
    /\ epc = "Completed"
    /\ fs0[Outside].kind = "file"
    /\ fs[Outside].kind = "none"
    /\ \E i \in DoneOperations :
          /\ operations[i].path = Outside
          /\ operations[i].action = "Delete"

----------------------------------------------------------------------------
(* The throughput history *)

\* the counts of the samples do not fall from front to back
SamplesNonDecreasing ==
    \A i, j \in DOMAIN throughput_history :
        i < j => throughput_history[i].items_processed
                    <= throughput_history[j].items_processed

\* current_throughput subtracts no larger count from a smaller one
NoUnderflow ==
    \A o \in CurrentThroughput(throughput_history) : o.kind \in {"None", "Some"}

\* no sample is more than the window older than the one recorded last
WindowKept ==
    \A i \in DOMAIN throughput_history :
        throughput_history[i].timestamp
            >= throughput_history[Len(throughput_history)].timestamp - WindowSecs

\* C40: under any interleaving of increment calls from parallel workers, the
\* samples of the throughput history have non-decreasing counts from front
\* to back, current_throughput never subtracts a larger count from a smaller
\* one, and every sample older than the 10-second window is evicted when a
\* new sample is recorded.
C40_HistoryOrdered ==
    /\ SamplesNonDecreasing
    /\ NoUnderflow
    /\ WindowKept

\* one worker fetched the count 100 and reached the mutex only after another
\* had recorded the count 200 a second earlier: the history holds 200 before
\* 100, and current_throughput panics or returns a wrapped difference
C40_Witness ==
    /\ Len(throughput_history) = 2
    /\ throughput_history[1].items_processed = 2 * SampleEvery
    /\ throughput_history[2].items_processed = SampleEvery
    /\ throughput_history[2].timestamp > throughput_history[1].timestamp
    /\ \E o \in CurrentThroughput(throughput_history) : o.kind = "Panic"
    /\ \E o \in CurrentThroughput(throughput_history) : o.kind = "Wrapped"
    /\ \A k \in ProgressWorkers : fetched[k] = 0

\* the timestamps of the samples do not fall from front to back
TimestampsNonDecreasing ==
    \A i, j \in DOMAIN throughput_history :
        i < j => throughput_history[i].timestamp <= throughput_history[j].timestamp

====
